---- MODULE Spec2Model ----
(***************************************************************************)
(* A model of asgard-rust: an HTTP CRUD service over three resources       *)
(* (users, products, orders) stored in PostgreSQL.                         *)
(*                                                                         *)
(* Layers, leaf first, as in the source:                                   *)
(*   - the store: three tables, the column defaults and the constraints    *)
(*     of the schema (the migrations are not among the source files, so    *)
(*     the schema is taken from the specification's data model);           *)
(*   - the repository adapters (src/src/adapters/db/*_repo.rs): one SQL    *)
(*     statement per operation and map_sqlx_err, once per adapter;         *)
(*   - the services (src/src/application/services.rs): delegation;         *)
(*   - the HTTP handlers (src/src/adapters/web/router.rs) and the error    *)
(*     translation (src/src/adapters/web/error.rs).                        *)
(*                                                                         *)
(* One action is one HTTP request handled from start to finish.  Tick is   *)
(* the store's clock advancing.  `last` holds the most recent request and  *)
(* its answer, which is what a client observes; Forget clears it before    *)
(* the next request, so that the states explored are the store's states    *)
(* and, for each, every single request on it.  A list request may follow   *)
(* a list answer directly, and a get request a create answer: that is how  *)
(* two answers are compared.                                               *)
(*                                                                         *)
(* SpecErr is the error mapping on its own: a native error is drawn and    *)
(* each adapter's map_sqlx_err is applied to it.                           *)
(* SpecSmoke is the requests of the integration test's scenario,           *)
(* SpecHealth the health probe with its two-second timeout, and SpecFake   *)
(* the UserRepository trait called on PgUserRepository and on the tests'   *)
(* FakeUserRepo side by side.                                              *)
(*                                                                         *)
(* SpecRace is requests handled in parallel: each is a task that enters    *)
(* its handler, takes a pooled connection, and runs its one statement,     *)
(* which the store executes as a whole; the steps of different tasks       *)
(* interleave freely.  SpecPool is the pool on its own: the tasks and any  *)
(* number of other requests competing for its ten connections.             *)
(***************************************************************************)
EXTENDS Integers, Sequences, FiniteSets, TLC

\* ------------------------------------------------------------------ bounds
\* Ids ever generated, over all tables (ids are UUIDs: one space).
MaxIds == 2
\* The clock reads 0..MaxClock.
MaxClock == 1

\* ------------------------------------------------------------ input values
Emails == {"a@b.com", "c@d.com"}
Names == {"Alice", "Alicia"}
Skus == {"sku-1", "sku-2"}
Prices == {0, 1234}
\* Prices a request may carry that the data model does not allow.
NegativePrices == {-1}
Statuses == {"created", "paid"}
Totals == {1000, 2500}
\* The three resources, each a table.
Resources == {"users", "products", "orders"}
\* Ids a request may name: generated ones and ones never generated.
IdSpace == 1..MaxIds

\* Rust's Option<T>: None, Some(v).
None == <<>>
Some(v) == <<v>>
Options(S) == {None} \cup {Some(v) : v \in S}

\* Rust's Result<T, E>.
Ok(v) == [ok |-> TRUE, val |-> v]
Err(e) == [ok |-> FALSE, err |-> e]

VARIABLES
  users,     \* table users: id -> row
  products,  \* table products: id -> row
  orders,    \* table orders: id -> row
  nextId,    \* the next id the store generates
  now,       \* the store's clock: what now() returns
  deleted,   \* history: per table, the ids a delete removed
  last,      \* the most recent request and its answer
  errIn,     \* error mapping on its own: the native error given
  errOut,    \* error mapping on its own: what each adapter and the boundary made of it
  probes,    \* the health probes in flight
  store,     \* FakeUserRepo.store: id -> user
  contract,  \* the most recent call made on both user repositories, and both answers
  tasks,     \* the CRUD requests in flight, one tokio task each
  held,      \* pooled connections held by requests other than the tasks
  before     \* history: the tables when the tasks in flight began to arrive

vars == <<users, products, orders, nextId, now, deleted, last, errIn, errOut, probes, store, contract, tasks, held, before>>

\* --------------------------------------------------------- native errors
\* sqlx::Error, as far as the adapters look at it: the variant, the SQLSTATE
\* code of a database error, and the text that goes into its Display.
SqlxError(kind, code, message) == [kind |-> kind, code |-> code, message |-> message]

RowNotFound == SqlxError("RowNotFound", None, "")
PoolTimedOut == SqlxError("PoolTimedOut", None, "")
unique_violation ==
  SqlxError("Database", Some("23505"), "duplicate key value violates unique constraint")
foreign_key_violation ==
  SqlxError("Database", Some("23503"), "violates foreign key constraint")
check_violation ==
  SqlxError("Database", Some("23514"), "violates check constraint")

\* err.to_string(): sqlx's Display of each variant.
sqlx_to_string(err) ==
  CASE err.kind = "RowNotFound" ->
         "no rows returned by a query that expected to return at least one row"
    [] err.kind = "Database" -> "error returned from database: " \o err.message
    [] err.kind = "PoolTimedOut" -> "pool timed out while waiting for an open connection"
    [] err.kind = "PoolClosed" -> "attempted to acquire a connection on a closed pool"
    [] err.kind = "Io" -> "error communicating with database: " \o err.message
    [] err.kind = "Protocol" -> "encountered unexpected or invalid data: " \o err.message
    [] err.kind = "Decode" -> "error occurred while decoding: " \o err.message
    [] err.kind = "ColumnNotFound" -> "no column found for name: " \o err.message

\* RepoError.
NotFound == [tag |-> "NotFound", detail |-> ""]
Conflict == [tag |-> "Conflict", detail |-> ""]
Unexpected(detail) == [tag |-> "Unexpected", detail |-> detail]

\* RepoError's Display (thiserror's #[error(...)] attributes).
RepoError_to_string(e) ==
  CASE e.tag = "NotFound" -> "not found"
    [] e.tag = "Conflict" -> "conflict"
    [] OTHER -> "unexpected repository error: " \o e.detail

\* ------------------------------------------------ adapters: map_sqlx_err
\* Mutant: the RowNotFound arm is missing, so "no rows" falls to the last arm.
map_sqlx_err_users_no_row_arm(err) ==
  IF err.kind = "Database"
    THEN IF err.code = Some("23505") THEN Conflict ELSE Unexpected(sqlx_to_string(err))
    ELSE Unexpected(sqlx_to_string(err))

\* Mutant: no arm for the code 23505: every database error is Unexpected.
map_sqlx_err_users_no_code_arm(err) ==
  IF err.kind = "RowNotFound" THEN NotFound ELSE Unexpected(sqlx_to_string(err))

\* users_repo.rs
map_sqlx_err_users(err) ==
  IF err.kind = "RowNotFound" THEN NotFound
  ELSE IF err.kind = "Database"
    THEN IF err.code = Some("23505") THEN Conflict ELSE Unexpected(sqlx_to_string(err))
    ELSE Unexpected(sqlx_to_string(err))

\* Mutant: the code compared is 23503 (foreign_key_violation), not 23505.
map_sqlx_err_products_23503(err) ==
  IF err.kind = "RowNotFound" THEN NotFound
  ELSE IF err.kind = "Database"
    THEN IF err.code = Some("23503") THEN Conflict ELSE Unexpected(sqlx_to_string(err))
    ELSE Unexpected(sqlx_to_string(err))

\* Mutant: no arm for the code: every database error is Unexpected.
map_sqlx_err_products_no_code_arm(err) ==
  IF err.kind = "RowNotFound" THEN NotFound
  ELSE Unexpected(sqlx_to_string(err))

\* products_repo.rs
map_sqlx_err_products(err) ==
  IF err.kind = "RowNotFound" THEN NotFound
  ELSE IF err.kind = "Database"
    THEN IF err.code = Some("23505") THEN Conflict ELSE Unexpected(sqlx_to_string(err))
    ELSE Unexpected(sqlx_to_string(err))

\* Mutant: both codes the comment names, 23503 and 23505, are taken for a conflict.
map_sqlx_err_orders_fk_conflict(err) ==
  IF err.kind = "RowNotFound" THEN NotFound
  ELSE IF err.kind = "Database"
    THEN IF err.code \in {Some("23503"), Some("23505")}
           THEN Conflict ELSE Unexpected(sqlx_to_string(err))
    ELSE Unexpected(sqlx_to_string(err))

\* Mutant: the code is not looked at: every database error is a conflict.
map_sqlx_err_orders_any_database(err) ==
  IF err.kind = "RowNotFound" THEN NotFound
  ELSE IF err.kind = "Database" THEN Conflict
  ELSE Unexpected(sqlx_to_string(err))

\* Mutant: no arm for RowNotFound: an UPDATE that found no row is Unexpected.
map_sqlx_err_orders_no_row_arm(err) ==
  IF err.kind = "Database"
    THEN IF err.code = Some("23505") THEN Conflict ELSE Unexpected(sqlx_to_string(err))
    ELSE Unexpected(sqlx_to_string(err))

\* orders_repo.rs
map_sqlx_err_orders(err) ==
  IF err.kind = "RowNotFound" THEN NotFound
  ELSE IF err.kind = "Database"
    THEN IF err.code = Some("23505") THEN Conflict ELSE Unexpected(sqlx_to_string(err))
    ELSE Unexpected(sqlx_to_string(err))

\* Result::map_err with each adapter's map_sqlx_err: `.map_err(map_sqlx_err)`.
map_err_users(r) == IF r.ok THEN r ELSE Err(map_sqlx_err_users(r.err))
map_err_products(r) == IF r.ok THEN r ELSE Err(map_sqlx_err_products(r.err))
map_err_orders(r) == IF r.ok THEN r ELSE Err(map_sqlx_err_orders(r.err))

\* ------------------------------------------------------------- the store
\* What a statement did: the rows it returned and the number it affected, or
\* the native error; and the table afterwards.
Done(rows, affected, tbl) == [q |-> Ok([rows |-> rows, affected |-> affected]), tbl |-> tbl]
Failed(err, tbl) == [q |-> Err(err), tbl |-> tbl]

\* Faults of the pool that keep a statement from running at all.
Faults == {"none", "PoolTimedOut"}

\* A query run on the pool: with a fault no connection is acquired and the
\* statement never runs; otherwise the statement runs.
query(fault, stmt, tbl) == IF fault = "none" THEN stmt ELSE Failed(PoolTimedOut, tbl)

\* sqlx's fetch_one: the first row, RowNotFound when there is none.
fetch_one(q) ==
  IF ~q.ok THEN q
  ELSE IF q.val.rows = <<>> THEN Err(RowNotFound) ELSE Ok(q.val.rows[1])

\* sqlx's fetch_all: every row, in the order the store returns them.
fetch_all(q) == IF ~q.ok THEN q ELSE Ok(q.val.rows)

\* sqlx's execute: the number of rows affected.
execute(q) == IF ~q.ok THEN q ELSE Ok(q.val.affected)

\* Mutant: the arguments swapped, COALESCE(column, $n): the column is never
\* NULL, so the parameter is never taken.
COALESCE_swapped(param, column) == column

\* COALESCE($n, column): the parameter unless it is NULL, else the column.
COALESCE(param, column) == IF param # None THEN param[1] ELSE column

\* A table with no row.
Empty == [i \in {} |-> <<>>]

\* A table without the row of one id.
Without(tbl, id) == [i \in DOMAIN tbl \ {id} |-> tbl[i]]

\* A table with one row added or replaced.
With(tbl, row) == [i \in DOMAIN tbl \cup {row.id} |-> IF i = row.id THEN row ELSE tbl[i]]

\* ORDER BY created_at DESC: every order of the table's rows with created_at
\* descending.  Rows with equal created_at may come in any order: the
\* statement names no second sort key.
OrderByCreatedAtDesc(tbl) ==
  LET n == Cardinality(DOMAIN tbl)
  IN {s \in [1..n -> {tbl[i] : i \in DOMAIN tbl}] :
        /\ \A i, j \in 1..n : i # j => s[i] # s[j]
        /\ \A i, j \in 1..n : i < j => s[i].created_at >= s[j].created_at}

\* ------------------------------------------------------------ the schema
\* Column defaults: id generated, created_at and updated_at both now().
DefaultColumns == [id |-> nextId, created_at |-> now, updated_at |-> now]

\* UNIQUE (email) on users: no other row holds this email.
users_email_key(id, email) == \A i \in DOMAIN users : i # id => users[i].email # email

\* UNIQUE (sku) on products.
products_sku_key(id, sku) == \A i \in DOMAIN products : i # id => products[i].sku # sku

\* Mutant: the products table without the check on price_cents.
products_price_cents_unchecked(price_cents) == TRUE

\* CHECK (price_cents >= 0) on products: price_cents is a non-negative integer.
products_price_cents_check(price_cents) == price_cents >= 0

\* Mutant: the orders table without the foreign key on user_id.
orders_user_id_unconstrained(user_id) == TRUE

\* orders.user_id REFERENCES users(id): the insert side.
orders_user_id_fkey(user_id) == user_id \in DOMAIN users

\* orders.user_id REFERENCES users(id): the delete side (no cascade): a user
\* that an order references cannot be removed.
users_referenced(id) == \E o \in DOMAIN orders : orders[o].user_id = id

\* ----------------------------------------------------- PgUserRepository
\* The struct built from a returned row, column by column.
User_from_row(row) ==
  [id |-> row.id, email |-> row.email, name |-> row.name,
   created_at |-> row.created_at, updated_at |-> row.updated_at]

\* INSERT INTO users (email, name) VALUES ($1, $2) RETURNING ...
insert_users(email, name) ==
  LET row == [id |-> DefaultColumns.id, email |-> email, name |-> name,
              created_at |-> DefaultColumns.created_at,
              updated_at |-> DefaultColumns.updated_at]
  IN IF users_email_key(row.id, email)
       THEN Done(<<row>>, 1, With(users, row))
       ELSE Failed(unique_violation, users)

\* SELECT ... FROM users WHERE id = $1
select_users(id) ==
  IF id \in DOMAIN users THEN Done(<<users[id]>>, 1, users) ELSE Done(<<>>, 0, users)

\* Mutant: the statement without `updated_at = now()`.
update_users_stale(id, email, name) ==
  IF id \notin DOMAIN users THEN Done(<<>>, 0, users)
  ELSE LET row == [id |-> id,
                   email |-> COALESCE(email, users[id].email),
                   name |-> COALESCE(name, users[id].name),
                   created_at |-> users[id].created_at,
                   updated_at |-> users[id].updated_at]
       IN IF users_email_key(id, row.email)
            THEN Done(<<row>>, 1, With(users, row))
            ELSE Failed(unique_violation, users)

\* Mutant: the row read when the request arrived, patched in the handler and
\* written back whole.
update_users_read_before(id, email, name) ==
  IF id \notin DOMAIN users THEN Done(<<>>, 0, users)
  ELSE LET read == IF id \in DOMAIN before.users THEN before.users[id] ELSE users[id]
           row == [id |-> id,
                   email |-> COALESCE(email, read.email),
                   name |-> COALESCE(name, read.name),
                   created_at |-> read.created_at,
                   updated_at |-> now]
       IN IF users_email_key(id, row.email)
            THEN Done(<<row>>, 1, With(users, row))
            ELSE Failed(unique_violation, users)

\* UPDATE users SET email = COALESCE($2, email), name = COALESCE($3, name),
\* updated_at = now() WHERE id = $1 RETURNING ...
update_users(id, email, name) ==
  IF id \notin DOMAIN users THEN Done(<<>>, 0, users)
  ELSE LET row == [id |-> id,
                   email |-> COALESCE(email, users[id].email),
                   name |-> COALESCE(name, users[id].name),
                   created_at |-> users[id].created_at,
                   updated_at |-> now]
       IN IF users_email_key(id, row.email)
            THEN Done(<<row>>, 1, With(users, row))
            ELSE Failed(unique_violation, users)

\* DELETE FROM users WHERE id = $1
delete_users(id) ==
  IF id \notin DOMAIN users THEN Done(<<>>, 0, users)
  ELSE IF users_referenced(id) THEN Failed(foreign_key_violation, users)
  ELSE Done(<<>>, 1, Without(users, id))

PgUserRepository_create(input, fault) ==
  LET x == query(fault, insert_users(input.email, input.name), users)
      row == map_err_users(fetch_one(x.q))
  IN [res |-> IF row.ok THEN Ok(User_from_row(row.val)) ELSE row, tbl |-> x.tbl]

\* `rows` is the order in which the store returns the table.
PgUserRepository_list(rows, fault) ==
  LET x == query(fault, Done(rows, Len(rows), users), users)
      got == map_err_users(fetch_all(x.q))
  IN [res |-> IF got.ok THEN Ok([i \in 1..Len(got.val) |-> User_from_row(got.val[i])])
              ELSE got,
      tbl |-> x.tbl]

\* Mutant: the email field read from the name column.
PgUserRepository_get_wrong_column(id, fault) ==
  LET x == query(fault, select_users(id), users)
      row == map_err_users(fetch_one(x.q))
  IN [res |-> IF row.ok
                THEN Ok([id |-> row.val.id, email |-> row.val.name, name |-> row.val.name,
                         created_at |-> row.val.created_at,
                         updated_at |-> row.val.updated_at])
                ELSE row,
      tbl |-> x.tbl]

PgUserRepository_get(id, fault) ==
  LET x == query(fault, select_users(id), users)
      row == map_err_users(fetch_one(x.q))
  IN [res |-> IF row.ok THEN Ok(User_from_row(row.val)) ELSE row, tbl |-> x.tbl]

PgUserRepository_update(id, input, fault) ==
  LET x == query(fault, update_users(id, input.email, input.name), users)
      row == map_err_users(fetch_one(x.q))
  IN [res |-> IF row.ok THEN Ok(User_from_row(row.val)) ELSE row, tbl |-> x.tbl]

PgUserRepository_delete(id, fault) ==
  LET x == query(fault, delete_users(id), users)
      n == map_err_users(execute(x.q))
  IN [res |-> IF ~n.ok THEN n ELSE IF n.val = 0 THEN Err(NotFound) ELSE Ok(<<>>),
      tbl |-> x.tbl]

\* -------------------------------------------------- PgProductRepository
Product_from_row(row) ==
  [id |-> row.id, sku |-> row.sku, name |-> row.name, price_cents |-> row.price_cents,
   created_at |-> row.created_at, updated_at |-> row.updated_at]

\* INSERT INTO products (sku, name, price_cents) VALUES ($1, $2, $3) RETURNING ...
insert_products(sku, name, price_cents) ==
  LET row == [id |-> DefaultColumns.id, sku |-> sku, name |-> name,
              price_cents |-> price_cents,
              created_at |-> DefaultColumns.created_at,
              updated_at |-> DefaultColumns.updated_at]
  IN IF ~products_price_cents_check(price_cents) THEN Failed(check_violation, products)
     ELSE IF products_sku_key(row.id, sku)
       THEN Done(<<row>>, 1, With(products, row))
       ELSE Failed(unique_violation, products)

\* SELECT ... FROM products WHERE id = $1
select_products(id) ==
  IF id \in DOMAIN products THEN Done(<<products[id]>>, 1, products)
  ELSE Done(<<>>, 0, products)

\* UPDATE products SET sku = COALESCE($2, sku), name = COALESCE($3, name),
\* price_cents = COALESCE($4, price_cents), updated_at = now() WHERE id = $1
\* RETURNING ...
update_products(id, sku, name, price_cents) ==
  IF id \notin DOMAIN products THEN Done(<<>>, 0, products)
  ELSE LET row == [id |-> id,
                   sku |-> COALESCE(sku, products[id].sku),
                   name |-> COALESCE(name, products[id].name),
                   price_cents |-> COALESCE(price_cents, products[id].price_cents),
                   created_at |-> products[id].created_at,
                   updated_at |-> now]
       IN IF ~products_price_cents_check(row.price_cents)
            THEN Failed(check_violation, products)
          ELSE IF products_sku_key(id, row.sku)
            THEN Done(<<row>>, 1, With(products, row))
            ELSE Failed(unique_violation, products)

\* Mutant: the statement without its WHERE clause: every row goes.
delete_products_all(id) ==
  IF id \notin DOMAIN products THEN Done(<<>>, 0, products)
  ELSE Done(<<>>, Cardinality(DOMAIN products), Empty)

\* DELETE FROM products WHERE id = $1
delete_products(id) ==
  IF id \notin DOMAIN products THEN Done(<<>>, 0, products)
  ELSE Done(<<>>, 1, Without(products, id))

PgProductRepository_create(input, fault) ==
  LET x == query(fault, insert_products(input.sku, input.name, input.price_cents), products)
      row == map_err_products(fetch_one(x.q))
  IN [res |-> IF row.ok THEN Ok(Product_from_row(row.val)) ELSE row, tbl |-> x.tbl]

PgProductRepository_list(rows, fault) ==
  LET x == query(fault, Done(rows, Len(rows), products), products)
      got == map_err_products(fetch_all(x.q))
  IN [res |-> IF got.ok THEN Ok([i \in 1..Len(got.val) |-> Product_from_row(got.val[i])])
              ELSE got,
      tbl |-> x.tbl]

PgProductRepository_get(id, fault) ==
  LET x == query(fault, select_products(id), products)
      row == map_err_products(fetch_one(x.q))
  IN [res |-> IF row.ok THEN Ok(Product_from_row(row.val)) ELSE row, tbl |-> x.tbl]

PgProductRepository_update(id, input, fault) ==
  LET x == query(fault, update_products(id, input.sku, input.name, input.price_cents),
                 products)
      row == map_err_products(fetch_one(x.q))
  IN [res |-> IF row.ok THEN Ok(Product_from_row(row.val)) ELSE row, tbl |-> x.tbl]

PgProductRepository_delete(id, fault) ==
  LET x == query(fault, delete_products(id), products)
      n == map_err_products(execute(x.q))
  IN [res |-> IF ~n.ok THEN n ELSE IF n.val = 0 THEN Err(NotFound) ELSE Ok(<<>>),
      tbl |-> x.tbl]

\* ---------------------------------------------------- PgOrderRepository
Order_from_row(row) ==
  [id |-> row.id, user_id |-> row.user_id, status |-> row.status,
   total_cents |-> row.total_cents,
   created_at |-> row.created_at, updated_at |-> row.updated_at]

\* INSERT INTO orders (user_id, status, total_cents) VALUES ($1, $2, $3) RETURNING ...
insert_orders(user_id, status, total_cents) ==
  LET row == [id |-> DefaultColumns.id, user_id |-> user_id, status |-> status,
              total_cents |-> total_cents,
              created_at |-> DefaultColumns.created_at,
              updated_at |-> DefaultColumns.updated_at]
  IN IF orders_user_id_fkey(user_id)
       THEN Done(<<row>>, 1, With(orders, row))
       ELSE Failed(foreign_key_violation, orders)

\* SELECT ... FROM orders WHERE id = $1
select_orders(id) ==
  IF id \in DOMAIN orders THEN Done(<<orders[id]>>, 1, orders) ELSE Done(<<>>, 0, orders)

\* Mutant: created_at is written along with updated_at.
update_orders_recreated(id, status, total_cents) ==
  IF id \notin DOMAIN orders THEN Done(<<>>, 0, orders)
  ELSE LET row == [id |-> id,
                   user_id |-> orders[id].user_id,
                   status |-> COALESCE(status, orders[id].status),
                   total_cents |-> COALESCE(total_cents, orders[id].total_cents),
                   created_at |-> now,
                   updated_at |-> now]
       IN Done(<<row>>, 1, With(orders, row))

\* Mutant: $2 is bound but the SET list leaves status out.
update_orders_status_unset(id, status, total_cents) ==
  IF id \notin DOMAIN orders THEN Done(<<>>, 0, orders)
  ELSE LET row == [id |-> id,
                   user_id |-> orders[id].user_id,
                   status |-> orders[id].status,
                   total_cents |-> COALESCE(total_cents, orders[id].total_cents),
                   created_at |-> orders[id].created_at,
                   updated_at |-> now]
       IN Done(<<row>>, 1, With(orders, row))

\* UPDATE orders SET status = COALESCE($2, status),
\* total_cents = COALESCE($3, total_cents), updated_at = now() WHERE id = $1
\* RETURNING ...
update_orders(id, status, total_cents) ==
  IF id \notin DOMAIN orders THEN Done(<<>>, 0, orders)
  ELSE LET row == [id |-> id,
                   user_id |-> orders[id].user_id,
                   status |-> COALESCE(status, orders[id].status),
                   total_cents |-> COALESCE(total_cents, orders[id].total_cents),
                   created_at |-> orders[id].created_at,
                   updated_at |-> now]
       IN Done(<<row>>, 1, With(orders, row))

\* DELETE FROM orders WHERE id = $1
delete_orders(id) ==
  IF id \notin DOMAIN orders THEN Done(<<>>, 0, orders)
  ELSE Done(<<>>, 1, Without(orders, id))

PgOrderRepository_create(input, fault) ==
  LET x == query(fault, insert_orders(input.user_id, input.status, input.total_cents), orders)
      row == map_err_orders(fetch_one(x.q))
  IN [res |-> IF row.ok THEN Ok(Order_from_row(row.val)) ELSE row, tbl |-> x.tbl]

PgOrderRepository_list(rows, fault) ==
  LET x == query(fault, Done(rows, Len(rows), orders), orders)
      got == map_err_orders(fetch_all(x.q))
  IN [res |-> IF got.ok THEN Ok([i \in 1..Len(got.val) |-> Order_from_row(got.val[i])])
              ELSE got,
      tbl |-> x.tbl]

PgOrderRepository_get(id, fault) ==
  LET x == query(fault, select_orders(id), orders)
      row == map_err_orders(fetch_one(x.q))
  IN [res |-> IF row.ok THEN Ok(Order_from_row(row.val)) ELSE row, tbl |-> x.tbl]

PgOrderRepository_update(id, input, fault) ==
  LET x == query(fault, update_orders(id, input.status, input.total_cents), orders)
      row == map_err_orders(fetch_one(x.q))
  IN [res |-> IF row.ok THEN Ok(Order_from_row(row.val)) ELSE row, tbl |-> x.tbl]

\* Mutant: rows_affected is not looked at.
PgOrderRepository_delete_unchecked(id, fault) ==
  LET x == query(fault, delete_orders(id), orders)
      n == map_err_orders(execute(x.q))
  IN [res |-> IF ~n.ok THEN n ELSE Ok(<<>>), tbl |-> x.tbl]

PgOrderRepository_delete(id, fault) ==
  LET x == query(fault, delete_orders(id), orders)
      n == map_err_orders(execute(x.q))
  IN [res |-> IF ~n.ok THEN n ELSE IF n.val = 0 THEN Err(NotFound) ELSE Ok(<<>>),
      tbl |-> x.tbl]

\* ---------------------------------------------------------- UserService
UserService_create(input, fault) == PgUserRepository_create(input, fault)
UserService_list(rows, fault) == PgUserRepository_list(rows, fault)
UserService_get(id, fault) == PgUserRepository_get(id, fault)
UserService_update(id, input, fault) == PgUserRepository_update(id, input, fault)
UserService_delete(id, fault) == PgUserRepository_delete(id, fault)

\* ------------------------------------------------------- ProductService
ProductService_create(input, fault) == PgProductRepository_create(input, fault)
ProductService_list(rows, fault) == PgProductRepository_list(rows, fault)
ProductService_get(id, fault) == PgProductRepository_get(id, fault)
ProductService_update(id, input, fault) == PgProductRepository_update(id, input, fault)
ProductService_delete(id, fault) == PgProductRepository_delete(id, fault)

\* --------------------------------------------------------- OrderService
\* Mutant: a failed call is made once more before the error is returned.
OrderService_create_retried(input, fault) ==
  LET first == PgOrderRepository_create(input, fault)
  IN IF first.res.ok THEN first ELSE PgOrderRepository_create(input, "none")

OrderService_create(input, fault) == PgOrderRepository_create(input, fault)
OrderService_list(rows, fault) == PgOrderRepository_list(rows, fault)
OrderService_get(id, fault) == PgOrderRepository_get(id, fault)
OrderService_update(id, input, fault) == PgOrderRepository_update(id, input, fault)
OrderService_delete(id, fault) == PgOrderRepository_delete(id, fault)

\* --------------------------------------------------------- FakeUserRepo
\* The in-memory repository of the service tests: a map from id to user.
\* Uuid::new_v4() is a fresh id and Utc::now() the clock's reading.
FakeUserRepo_create(input) ==
  LET id == nextId
      user == [id |-> id, email |-> input.email, name |-> input.name,
               created_at |-> now, updated_at |-> now]
  IN [res |-> Ok(user), store |-> With(store, user)]

\* values(): every order of the map's users, the map having no order of its own.
values(map) ==
  LET n == Cardinality(DOMAIN map)
  IN {s \in [1..n -> {map[i] : i \in DOMAIN map}] :
        \A i, j \in 1..n : i # j => s[i] # s[j]}

FakeUserRepo_list(collected) == [res |-> Ok(collected), store |-> store]

FakeUserRepo_get(id) ==
  [res |-> IF id \in DOMAIN store THEN Ok(store[id]) ELSE Err(NotFound), store |-> store]

FakeUserRepo_update(id, input) ==
  IF id \notin DOMAIN store THEN [res |-> Err(NotFound), store |-> store]
  ELSE LET u == [id |-> id,
                 email |-> IF input.email # None THEN input.email[1] ELSE store[id].email,
                 name |-> IF input.name # None THEN input.name[1] ELSE store[id].name,
                 created_at |-> store[id].created_at,
                 updated_at |-> now]
       IN [res |-> Ok(u), store |-> With(store, u)]

FakeUserRepo_delete(id) ==
  IF id \notin DOMAIN store THEN [res |-> Err(NotFound), store |-> store]
  ELSE [res |-> Ok(<<>>), store |-> Without(store, id)]

\* ------------------------------------------------------- the HTTP boundary
OK == 200
CREATED == 201
NO_CONTENT == 204
NOT_FOUND == 404
CONFLICT == 409
INTERNAL_SERVER_ERROR == 500

\* Mutant: the message of Unexpected is the error's Display, prefix included.
ApiError_from_display(value) ==
  CASE value.tag = "NotFound" -> [status |-> NOT_FOUND, message |-> "not found"]
    [] value.tag = "Conflict" -> [status |-> CONFLICT, message |-> "conflict"]
    [] value.tag = "Unexpected" ->
         [status |-> INTERNAL_SERVER_ERROR, message |-> RepoError_to_string(value)]

\* impl From<RepoError> for ApiError
ApiError_from(value) ==
  CASE value.tag = "NotFound" -> [status |-> NOT_FOUND, message |-> "not found"]
    [] value.tag = "Conflict" -> [status |-> CONFLICT, message |-> "conflict"]
    [] value.tag = "Unexpected" -> [status |-> INTERNAL_SERVER_ERROR, message |-> value.detail]

\* impl IntoResponse for ApiError: the status and the body {"error": message}.
into_response(e) == [status |-> e.status, json |-> [error |-> e.message]]

\* Mutant: the handler returns Json(value) alone, which answers 200 whatever
\* status was meant.
respond_json_only(res, status) ==
  IF res.ok THEN [status |-> OK, json |-> res.val]
  ELSE into_response(ApiError_from(res.err))

\* A handler's answer: `.map_err(ApiError::from)?` and then the success
\* status with the value as JSON.
respond(res, status) ==
  IF res.ok THEN [status |-> status, json |-> res.val]
  ELSE into_response(ApiError_from(res.err))

\* Request bodies, after the Json extractor: an Option field is None when the
\* JSON field is missing or null.
CreateUserBody == [email : Emails, name : Names]
UpdateUserBody == [email : Options(Emails), name : Options(Names)]
CreateProductBody == [sku : Skus, name : Names, price_cents : Prices \cup NegativePrices]
UpdateProductBody ==
  [sku : Options(Skus), name : Options(Names),
   price_cents : Options(Prices \cup NegativePrices)]
CreateOrderBody == [user_id : IdSpace, status : Statuses, total_cents : Totals]
UpdateOrderBody == [status : Options(Statuses), total_cents : Options(Totals)]

\* What a client sees of one request: the handler, its path id and body, the
\* fault the pool had, the service's result and the HTTP answer; and which
\* answer, if any, the request followed directly.
Observe(op, rsrc, id, body, fault, res, http) ==
  [op |-> op, rsrc |-> rsrc, id |-> id, body |-> body, fault |-> fault,
   res |-> res, http |-> http, after |-> last.op]

Idle ==
  [op |-> "idle", rsrc |-> "none", id |-> 0, body |-> None, fault |-> "none",
   res |-> Ok(<<>>), http |-> [status |-> 0, json |-> <<>>], after |-> "idle"]

NoMapping == [users |-> None, products |-> None, orders |-> None]

\* A request is taken when the previous answer has been consumed.
Ready == last = Idle

\* A list request is also taken right after a list answer of the same resource.
ReadyToList(rsrc) == Ready \/ (last.op = "list" /\ last.rsrc = rsrc /\ last.res.ok)

\* A get request is also taken right after a successful create of the same
\* resource.
ReadyToGet(rsrc) == Ready \/ (last.op = "create" /\ last.rsrc = rsrc /\ last.res.ok)

\* ---- users
create_user ==
  /\ Ready
  /\ nextId <= MaxIds
  /\ \E body \in CreateUserBody, fault \in Faults :
       LET r == UserService_create([email |-> body.email, name |-> body.name], fault)
       IN /\ users' = r.tbl
          /\ nextId' = IF r.res.ok THEN nextId + 1 ELSE nextId
          /\ last' = Observe("create", "users", 0, body, fault, r.res, respond(r.res, CREATED))
  /\ UNCHANGED <<products, orders, now, deleted, errIn, errOut, probes, store, contract, tasks, held, before>>

list_users ==
  /\ ReadyToList("users")
  /\ \E rows \in OrderByCreatedAtDesc(users), fault \in Faults :
       LET r == UserService_list(rows, fault)
       IN last' = Observe("list", "users", 0, None, fault, r.res, respond(r.res, OK))
  /\ UNCHANGED <<users, products, orders, nextId, now, deleted, errIn, errOut, probes, store, contract, tasks, held, before>>

get_user ==
  /\ ReadyToGet("users")
  /\ \E id \in IdSpace, fault \in Faults :
       LET r == UserService_get(id, fault)
       IN last' = Observe("get", "users", id, None, fault, r.res, respond(r.res, OK))
  /\ UNCHANGED <<users, products, orders, nextId, now, deleted, errIn, errOut, probes, store, contract, tasks, held, before>>

update_user ==
  /\ Ready
  /\ \E id \in IdSpace, body \in UpdateUserBody, fault \in Faults :
       LET r == UserService_update(id, [email |-> body.email, name |-> body.name], fault)
       IN /\ users' = r.tbl
          /\ last' = Observe("update", "users", id, body, fault, r.res, respond(r.res, OK))
  /\ UNCHANGED <<products, orders, nextId, now, deleted, errIn, errOut, probes, store, contract, tasks, held, before>>

delete_user ==
  /\ Ready
  /\ \E id \in IdSpace, fault \in Faults :
       LET r == UserService_delete(id, fault)
       IN /\ users' = r.tbl
          /\ deleted' = IF r.res.ok THEN [deleted EXCEPT !.users = @ \cup {id}] ELSE deleted
          /\ last' = Observe("delete", "users", id, None, fault, r.res,
                             IF r.res.ok THEN [status |-> NO_CONTENT, json |-> <<>>]
                             ELSE into_response(ApiError_from(r.res.err)))
  /\ UNCHANGED <<products, orders, nextId, now, errIn, errOut, probes, store, contract, tasks, held, before>>

\* ---- products
create_product ==
  /\ Ready
  /\ nextId <= MaxIds
  /\ \E body \in CreateProductBody, fault \in Faults :
       LET r == ProductService_create(
                  [sku |-> body.sku, name |-> body.name, price_cents |-> body.price_cents],
                  fault)
       IN /\ products' = r.tbl
          /\ nextId' = IF r.res.ok THEN nextId + 1 ELSE nextId
          /\ last' = Observe("create", "products", 0, body, fault, r.res,
                             respond(r.res, CREATED))
  /\ UNCHANGED <<users, orders, now, deleted, errIn, errOut, probes, store, contract, tasks, held, before>>

list_products ==
  /\ ReadyToList("products")
  /\ \E rows \in OrderByCreatedAtDesc(products), fault \in Faults :
       LET r == ProductService_list(rows, fault)
       IN last' = Observe("list", "products", 0, None, fault, r.res, respond(r.res, OK))
  /\ UNCHANGED <<users, products, orders, nextId, now, deleted, errIn, errOut, probes, store, contract, tasks, held, before>>

get_product ==
  /\ ReadyToGet("products")
  /\ \E id \in IdSpace, fault \in Faults :
       LET r == ProductService_get(id, fault)
       IN last' = Observe("get", "products", id, None, fault, r.res, respond(r.res, OK))
  /\ UNCHANGED <<users, products, orders, nextId, now, deleted, errIn, errOut, probes, store, contract, tasks, held, before>>

update_product ==
  /\ Ready
  /\ \E id \in IdSpace, body \in UpdateProductBody, fault \in Faults :
       LET r == ProductService_update(
                  id,
                  [sku |-> body.sku, name |-> body.name, price_cents |-> body.price_cents],
                  fault)
       IN /\ products' = r.tbl
          /\ last' = Observe("update", "products", id, body, fault, r.res,
                             respond(r.res, OK))
  /\ UNCHANGED <<users, orders, nextId, now, deleted, errIn, errOut, probes, store, contract, tasks, held, before>>

delete_product ==
  /\ Ready
  /\ \E id \in IdSpace, fault \in Faults :
       LET r == ProductService_delete(id, fault)
       IN /\ products' = r.tbl
          /\ deleted' = IF r.res.ok THEN [deleted EXCEPT !.products = @ \cup {id}]
                        ELSE deleted
          /\ last' = Observe("delete", "products", id, None, fault, r.res,
                             IF r.res.ok THEN [status |-> NO_CONTENT, json |-> <<>>]
                             ELSE into_response(ApiError_from(r.res.err)))
  /\ UNCHANGED <<users, orders, nextId, now, errIn, errOut, probes, store, contract, tasks, held, before>>

\* ---- orders
create_order ==
  /\ Ready
  /\ nextId <= MaxIds
  /\ \E body \in CreateOrderBody, fault \in Faults :
       LET r == OrderService_create(
                  [user_id |-> body.user_id, status |-> body.status,
                   total_cents |-> body.total_cents],
                  fault)
       IN /\ orders' = r.tbl
          /\ nextId' = IF r.res.ok THEN nextId + 1 ELSE nextId
          /\ last' = Observe("create", "orders", 0, body, fault, r.res,
                             respond(r.res, CREATED))
  /\ UNCHANGED <<users, products, now, deleted, errIn, errOut, probes, store, contract, tasks, held, before>>

list_orders ==
  /\ ReadyToList("orders")
  /\ \E rows \in OrderByCreatedAtDesc(orders), fault \in Faults :
       LET r == OrderService_list(rows, fault)
       IN last' = Observe("list", "orders", 0, None, fault, r.res, respond(r.res, OK))
  /\ UNCHANGED <<users, products, orders, nextId, now, deleted, errIn, errOut, probes, store, contract, tasks, held, before>>

get_order ==
  /\ ReadyToGet("orders")
  /\ \E id \in IdSpace, fault \in Faults :
       LET r == OrderService_get(id, fault)
       IN last' = Observe("get", "orders", id, None, fault, r.res, respond(r.res, OK))
  /\ UNCHANGED <<users, products, orders, nextId, now, deleted, errIn, errOut, probes, store, contract, tasks, held, before>>

update_order ==
  /\ Ready
  /\ \E id \in IdSpace, body \in UpdateOrderBody, fault \in Faults :
       LET r == OrderService_update(
                  id, [status |-> body.status, total_cents |-> body.total_cents], fault)
       IN /\ orders' = r.tbl
          /\ last' = Observe("update", "orders", id, body, fault, r.res, respond(r.res, OK))
  /\ UNCHANGED <<users, products, nextId, now, deleted, errIn, errOut, probes, store, contract, tasks, held, before>>

delete_order ==
  /\ Ready
  /\ \E id \in IdSpace, fault \in Faults :
       LET r == OrderService_delete(id, fault)
       IN /\ orders' = r.tbl
          /\ deleted' = IF r.res.ok THEN [deleted EXCEPT !.orders = @ \cup {id}]
                        ELSE deleted
          /\ last' = Observe("delete", "orders", id, None, fault, r.res,
                             IF r.res.ok THEN [status |-> NO_CONTENT, json |-> <<>>]
                             ELSE into_response(ApiError_from(r.res.err)))
  /\ UNCHANGED <<users, products, nextId, now, errIn, errOut, probes, store, contract, tasks, held, before>>

\* ---------------------------------------------------------------- the clock
\* Time passes at the store, between two requests.
Tick ==
  /\ Ready
  /\ now < MaxClock
  /\ now' = now + 1
  /\ UNCHANGED last
  /\ UNCHANGED <<users, products, orders, nextId, deleted, errIn, errOut, probes, store, contract, tasks, held, before>>

\* The client has read the answer.
Forget ==
  /\ last # Idle
  /\ last' = Idle
  /\ UNCHANGED <<users, products, orders, nextId, now, deleted, errIn, errOut, probes, store, contract, tasks, held, before>>

\* ------------------------------------------------------- the health probe
\* GET /health.  Requests are handled in parallel: each probe in flight has
\* its own future and its own timer.
MaxProbes == 2
ProbeIds == 1..MaxProbes

\* Duration::from_secs(2), in seconds.
HealthTimeout == 2

\* How long the model lets a probe wait: past the timeout, so that a probe
\* that outlives it would show.
MaxWait == HealthTimeout + 1

\* A probe: where its handler is, the seconds since db_health began, what the
\* round trip ("SELECT 1", a pooled connection acquired first) has come to,
\* and the answer sent.
NoProbe == [pc |-> "idle", elapsed |-> 0, fut |-> "pending", http |-> None]
NoProbes == [p \in ProbeIds |-> NoProbe]

\* Mutant: the future awaited without a timeout around it.
timeout_never(duration, fut, elapsed) ==
  IF fut # "pending" THEN Some(Ok(fut)) ELSE None

\* tokio::time::timeout(duration, fut) polled at `elapsed`: the future first,
\* Ok(its output) when it is ready; else Err(Elapsed) once the duration has
\* passed; else still pending (None).
timeout(duration, fut, elapsed) ==
  IF fut # "pending" THEN Some(Ok(fut))
  ELSE IF elapsed >= duration THEN Some(Err("Elapsed"))
  ELSE None

\* db_health: timeout(..).await.ok().and_then(|r| r.ok()).is_some(), or None
\* while the await is pending.
db_health(fut, elapsed) ==
  LET t == timeout(HealthTimeout, fut, elapsed)
  IN IF t = None THEN None
     ELSE Some(t[1].ok /\ t[1].val = "ok")

\* health: Ok(Json(HealthResponse { status: "ok", db: .. })).
health(db_ok) ==
  [status |-> OK, json |-> [status |-> "ok", db |-> IF db_ok THEN "ok" ELSE "error"]]

\* A probe arrives: db_health starts the query and the timer.
health_request(p) ==
  /\ probes[p].pc = "idle"
  /\ probes' = [probes EXCEPT ![p] = [NoProbe EXCEPT !.pc = "waiting"]]
  /\ UNCHANGED <<users, products, orders, nextId, now, deleted, last, errIn, errOut, store, contract, tasks, held, before>>

\* The round trip comes to an end: a row, or an error (no connection within
\* acquire_timeout, connection refused, ...).  With the store unreachable or
\* every pooled connection busy this step does not happen.
fetch_one_done(p) ==
  /\ probes[p].pc = "waiting" /\ probes[p].fut = "pending"
  /\ \E r \in {"ok", "err"} : probes' = [probes EXCEPT ![p].fut = r]
  /\ UNCHANGED <<users, products, orders, nextId, now, deleted, last, errIn, errOut, store, contract, tasks, held, before>>

\* A second passes while db_health is still awaiting.
health_wait(p) ==
  /\ probes[p].pc = "waiting"
  /\ db_health(probes[p].fut, probes[p].elapsed) = None
  /\ probes[p].elapsed < MaxWait
  /\ probes' = [probes EXCEPT ![p].elapsed = @ + 1]
  /\ UNCHANGED <<users, products, orders, nextId, now, deleted, last, errIn, errOut, store, contract, tasks, held, before>>

\* The await is over, by the round trip or by the timer: the handler answers.
health_answer(p) ==
  /\ probes[p].pc = "waiting"
  /\ db_health(probes[p].fut, probes[p].elapsed) # None
  /\ probes' = [probes EXCEPT ![p].pc = "done",
                              ![p].http = Some(health(db_health(probes[p].fut,
                                                                probes[p].elapsed)[1]))]
  /\ UNCHANGED <<users, products, orders, nextId, now, deleted, last, errIn, errOut, store, contract, tasks, held, before>>

\* The answer has been read.
health_forget(p) ==
  /\ probes[p].pc = "done"
  /\ probes' = [probes EXCEPT ![p] = NoProbe]
  /\ UNCHANGED <<users, products, orders, nextId, now, deleted, last, errIn, errOut, store, contract, tasks, held, before>>

\* ------------------------------------------ UserRepository, both implementers
\* One call of the UserRepository trait made on PgUserRepository and on
\* FakeUserRepo with the same arguments, each on its own store; the pool
\* serves the call.  A create draws one fresh id for both.
NoContract == [op |-> "none", id |-> 0, body |-> None, pg |-> Ok(<<>>), fake |-> Ok(<<>>)]

UserRepository_create ==
  /\ nextId <= MaxIds
  /\ \E input \in CreateUserBody :
       LET pg == PgUserRepository_create(input, "none")
           fk == FakeUserRepo_create(input)
       IN /\ users' = pg.tbl
          /\ store' = fk.store
          /\ contract' = [op |-> "create", id |-> nextId, body |-> Some(input),
                          pg |-> pg.res, fake |-> fk.res]
  /\ nextId' = nextId + 1
  /\ UNCHANGED <<products, orders, now, deleted, last, errIn, errOut, probes, tasks, held, before>>

UserRepository_list ==
  /\ \E rows \in OrderByCreatedAtDesc(users), collected \in values(store) :
       contract' = [op |-> "list", id |-> 0, body |-> None,
                    pg |-> PgUserRepository_list(rows, "none").res,
                    fake |-> FakeUserRepo_list(collected).res]
  /\ UNCHANGED <<users, store, products, orders, nextId, now, deleted, last, errIn, errOut, probes, tasks, held, before>>

UserRepository_get ==
  /\ \E id \in IdSpace :
       contract' = [op |-> "get", id |-> id, body |-> None,
                    pg |-> PgUserRepository_get(id, "none").res,
                    fake |-> FakeUserRepo_get(id).res]
  /\ UNCHANGED <<users, store, products, orders, nextId, now, deleted, last, errIn, errOut, probes, tasks, held, before>>

UserRepository_update ==
  /\ \E id \in IdSpace, input \in UpdateUserBody :
       LET pg == PgUserRepository_update(id, input, "none")
           fk == FakeUserRepo_update(id, input)
       IN /\ users' = pg.tbl
          /\ store' = fk.store
          /\ contract' = [op |-> "update", id |-> id, body |-> Some(input),
                          pg |-> pg.res, fake |-> fk.res]
  /\ UNCHANGED <<products, orders, nextId, now, deleted, last, errIn, errOut, probes, tasks, held, before>>

UserRepository_delete ==
  /\ \E id \in IdSpace :
       LET pg == PgUserRepository_delete(id, "none")
           fk == FakeUserRepo_delete(id)
       IN /\ users' = pg.tbl
          /\ store' = fk.store
          /\ contract' = [op |-> "delete", id |-> id, body |-> None,
                          pg |-> pg.res, fake |-> fk.res]
  /\ UNCHANGED <<products, orders, nextId, now, deleted, last, errIn, errOut, probes, tasks, held, before>>

\* ------------------------------------------------- requests in parallel
\* axum runs every request as a task of its own; the tasks share the pool and
\* nothing else.  A task enters its handler, awaits a pooled connection
\* (fetch_one / execute on &self.pool acquire one and give it back when the
\* statement is over), runs its one statement and answers.  The store runs
\* each statement as a whole: a statement that meets a row another statement
\* has locked waits for it and then works on the row as that statement left it.
MaxTasks == 2
TaskIds == 1..MaxTasks

\* PgPoolOptions::max_connections(10).
max_connections == 10

\* PgPoolOptions::acquire_timeout(Duration::from_secs(10)), in seconds.
acquire_timeout == 10

\* A task: where its handler is, the seconds it has awaited a connection, the
\* request it serves, the tasks that were in flight when its statement ran,
\* and its answer.
NoTask ==
  [pc |-> "idle", waited |-> 0, op |-> "none", rsrc |-> "none", id |-> 0,
   body |-> None, fault |-> "none", with |-> {}, res |-> Ok(<<>>),
   http |-> [status |-> 0, json |-> <<>>]]
NoTasks == [t \in TaskIds |-> NoTask]
NoTables == [users |-> Empty, products |-> Empty, orders |-> Empty]

\* Connections out of the pool: one per task whose statement is under way,
\* and those of the other requests.
InUse == held + Cardinality({t \in TaskIds : tasks[t].pc = "query"})

\* Mutant: acquire awaited without a deadline.
acquire_timed_out_never(waited) == FALSE

\* The deadline of pool.acquire() has passed.
acquire_timed_out(waited) == waited >= acquire_timeout

\* The tasks in flight beside t.
InFlight(t) == {q \in TaskIds \ {t} : tasks[q].pc \in {"acquire", "query"}}

\* The task's answer, once its handler has returned.
Answered(t, op, rsrc, id, body, fault, res, http) ==
  [pc |-> "done", waited |-> tasks[t].waited, op |-> op, rsrc |-> rsrc, id |-> id,
   body |-> body, fault |-> fault, with |-> InFlight(t), res |-> res, http |-> http]

\* The handlers that write, by resource: what the service returns and the
\* table afterwards.
Service_create(rsrc, input, fault) ==
  CASE rsrc = "users" -> UserService_create(input, fault)
    [] rsrc = "products" -> ProductService_create(input, fault)
    [] rsrc = "orders" -> OrderService_create(input, fault)

Service_update(rsrc, id, input, fault) ==
  CASE rsrc = "users" -> UserService_update(id, input, fault)
    [] rsrc = "products" -> ProductService_update(id, input, fault)
    [] rsrc = "orders" -> OrderService_update(id, input, fault)

Service_delete(rsrc, id, fault) ==
  CASE rsrc = "users" -> UserService_delete(id, fault)
    [] rsrc = "products" -> ProductService_delete(id, fault)
    [] rsrc = "orders" -> OrderService_delete(id, fault)

CreateBody(rsrc) ==
  CASE rsrc = "users" -> CreateUserBody
    [] rsrc = "products" -> CreateProductBody
    [] rsrc = "orders" -> CreateOrderBody

UpdateBody(rsrc) ==
  CASE rsrc = "users" -> UpdateUserBody
    [] rsrc = "products" -> UpdateProductBody
    [] rsrc = "orders" -> UpdateOrderBody

\* The patches the tasks send: one field each, so that two of them are on
\* disjoint fields or on the same one.
Patches(rsrc) ==
  {b \in UpdateBody(rsrc) : Cardinality({f \in DOMAIN b : b[f] # None}) = 1}

\* The tables with one of them replaced.
Written(rsrc, tbl) ==
  /\ users' = IF rsrc = "users" THEN tbl ELSE users
  /\ products' = IF rsrc = "products" THEN tbl ELSE products
  /\ orders' = IF rsrc = "orders" THEN tbl ELSE orders

\* A request arrives: its handler runs up to the await of a connection.
task_request(t) ==
  /\ tasks[t].pc = "idle"
  /\ tasks' = [tasks EXCEPT ![t].pc = "acquire"]
  /\ UNCHANGED <<users, products, orders, nextId, now, deleted, last, errIn, errOut, probes, store, contract, held, before>>

\* pool.acquire() returns a connection: one is free.
task_acquire(t) ==
  /\ tasks[t].pc = "acquire"
  /\ InUse < max_connections
  /\ tasks' = [tasks EXCEPT ![t].pc = "query"]
  /\ UNCHANGED <<users, products, orders, nextId, now, deleted, last, errIn, errOut, probes, store, contract, held, before>>

\* A second passes while the task awaits a connection and none is free.
task_wait(t) ==
  /\ tasks[t].pc = "acquire"
  /\ InUse >= max_connections
  /\ ~acquire_timed_out(tasks[t].waited)
  /\ tasks[t].waited < acquire_timeout
  /\ tasks' = [tasks EXCEPT ![t].waited = @ + 1]
  /\ UNCHANGED <<users, products, orders, nextId, now, deleted, last, errIn, errOut, probes, store, contract, held, before>>

\* pool.acquire() gives up: Error::PoolTimedOut.  The statement never runs and
\* the handler answers with what the adapter makes of the error.
task_timeout(t) ==
  /\ tasks[t].pc = "acquire"
  /\ InUse >= max_connections
  /\ acquire_timed_out(tasks[t].waited)
  /\ \E rsrc \in Resources :
       \/ \E body \in CreateBody(rsrc) :
            LET r == Service_create(rsrc, body, "PoolTimedOut")
            IN tasks' = [tasks EXCEPT ![t] =
                 Answered(t, "create", rsrc, 0, body, "PoolTimedOut", r.res,
                          respond(r.res, CREATED))]
       \/ \E id \in IdSpace, body \in Patches(rsrc) :
            LET r == Service_update(rsrc, id, body, "PoolTimedOut")
            IN tasks' = [tasks EXCEPT ![t] =
                 Answered(t, "update", rsrc, id, body, "PoolTimedOut", r.res,
                          respond(r.res, OK))]
       \/ \E id \in IdSpace :
            LET r == Service_delete(rsrc, id, "PoolTimedOut")
            IN tasks' = [tasks EXCEPT ![t] =
                 Answered(t, "delete", rsrc, id, None, "PoolTimedOut", r.res,
                          IF r.res.ok THEN [status |-> NO_CONTENT, json |-> <<>>]
                          ELSE into_response(ApiError_from(r.res.err)))]
  /\ UNCHANGED <<users, products, orders, nextId, now, deleted, last, errIn, errOut, probes, store, contract, held, before>>

\* POST /users, /products, /orders: the INSERT runs and the handler answers.
task_create(t) ==
  /\ tasks[t].pc = "query"
  /\ nextId <= MaxIds
  /\ \E rsrc \in Resources : \E body \in CreateBody(rsrc) :
       LET r == Service_create(rsrc, body, "none")
       IN /\ Written(rsrc, r.tbl)
          /\ nextId' = IF r.res.ok THEN nextId + 1 ELSE nextId
          /\ tasks' = [tasks EXCEPT ![t] =
               Answered(t, "create", rsrc, 0, body, "none", r.res, respond(r.res, CREATED))]
  /\ UNCHANGED <<now, deleted, last, errIn, errOut, probes, store, contract, held, before>>

\* PUT /users/{id}, ...: the UPDATE runs and the handler answers.
task_update(t) ==
  /\ tasks[t].pc = "query"
  /\ \E rsrc \in Resources : \E id \in IdSpace, body \in Patches(rsrc) :
       LET r == Service_update(rsrc, id, body, "none")
       IN /\ Written(rsrc, r.tbl)
          /\ tasks' = [tasks EXCEPT ![t] =
               Answered(t, "update", rsrc, id, body, "none", r.res, respond(r.res, OK))]
  /\ UNCHANGED <<nextId, now, deleted, last, errIn, errOut, probes, store, contract, held, before>>

\* DELETE /users/{id}, ...: the DELETE runs and the handler answers.
task_delete(t) ==
  /\ tasks[t].pc = "query"
  /\ \E rsrc \in Resources, id \in IdSpace :
       LET r == Service_delete(rsrc, id, "none")
       IN /\ Written(rsrc, r.tbl)
          /\ deleted' = IF r.res.ok THEN [deleted EXCEPT ![rsrc] = @ \cup {id}] ELSE deleted
          /\ tasks' = [tasks EXCEPT ![t] =
               Answered(t, "delete", rsrc, id, None, "none", r.res,
                        IF r.res.ok THEN [status |-> NO_CONTENT, json |-> <<>>]
                        ELSE into_response(ApiError_from(r.res.err)))]
  /\ UNCHANGED <<nextId, now, last, errIn, errOut, probes, store, contract, held, before>>

\* Every answer has been read: the next requests find the tables as they are.
tasks_forget ==
  /\ \A t \in TaskIds : tasks[t].pc \in {"idle", "done"}
  /\ \E t \in TaskIds : tasks[t].pc = "done"
  /\ tasks' = NoTasks
  /\ before' = [users |-> users, products |-> products, orders |-> orders]
  /\ UNCHANGED <<users, products, orders, nextId, now, deleted, last, errIn, errOut, probes, store, contract, held>>

\* Another request takes a connection and is suspended with it.
other_acquire ==
  /\ InUse < max_connections
  /\ held' = held + 1
  /\ UNCHANGED <<users, products, orders, nextId, now, deleted, last, errIn, errOut, probes, store, contract, tasks, before>>

\* Another request's statement is over: its connection is back in the pool.
other_release ==
  /\ held > 0
  /\ held' = held - 1
  /\ UNCHANGED <<users, products, orders, nextId, now, deleted, last, errIn, errOut, probes, store, contract, tasks, before>>

\* ------------------------------------------------------- the specification
Init ==
  /\ users = Empty
  /\ products = Empty
  /\ orders = Empty
  /\ nextId = 1
  /\ now = 0
  /\ deleted = [users |-> {}, products |-> {}, orders |-> {}]
  /\ last = Idle
  /\ errIn = RowNotFound
  /\ errOut = NoMapping
  /\ probes = NoProbes
  /\ store = Empty
  /\ contract = NoContract
  /\ tasks = NoTasks
  /\ held = 0
  /\ before = NoTables

\* ------------------------------------------------ the error mapping alone
SqlStates == {"23505", "23503", "23502", "23514", "40001", "42P01"}
Messages == {"m1", "m2"}

\* sqlx::Error values: the variants without data, database errors with and
\* without a code, and variants that carry a message.
NativeErrors ==
  {RowNotFound, PoolTimedOut, SqlxError("PoolClosed", None, "")}
    \cup {SqlxError("Database", c, m) : c \in Options(SqlStates), m \in Messages}
    \cup {SqlxError(k, None, m) : k \in {"Io", "Protocol", "Decode", "ColumnNotFound"},
                                  m \in Messages}

map_users ==
  /\ errOut.users = None
  /\ errOut' = [errOut EXCEPT !.users = Some(map_sqlx_err_users(errIn))]
  /\ UNCHANGED <<users, products, orders, nextId, now, deleted, last, errIn, probes, store, contract, tasks, held, before>>

map_products ==
  /\ errOut.products = None
  /\ errOut' = [errOut EXCEPT !.products = Some(map_sqlx_err_products(errIn))]
  /\ UNCHANGED <<users, products, orders, nextId, now, deleted, last, errIn, probes, store, contract, tasks, held, before>>

map_orders ==
  /\ errOut.orders = None
  /\ errOut' = [errOut EXCEPT !.orders = Some(map_sqlx_err_orders(errIn))]
  /\ UNCHANGED <<users, products, orders, nextId, now, deleted, last, errIn, probes, store, contract, tasks, held, before>>

InitErr ==
  /\ users = Empty
  /\ products = Empty
  /\ orders = Empty
  /\ nextId = 1
  /\ now = 0
  /\ deleted = [users |-> {}, products |-> {}, orders |-> {}]
  /\ last = Idle
  /\ errIn \in NativeErrors
  /\ errOut = NoMapping
  /\ probes = NoProbes
  /\ store = Empty
  /\ contract = NoContract
  /\ tasks = NoTasks
  /\ held = 0
  /\ before = NoTables

NextErr ==
  \/ map_users
  \/ map_products
  \/ map_orders

SpecErr == InitErr /\ [][NextErr]_vars

\* ------------------------------------------------------ the probe alone
NextHealth ==
  \E p \in ProbeIds :
    \/ health_request(p)
    \/ fetch_one_done(p)
    \/ health_wait(p)
    \/ health_answer(p)
    \/ health_forget(p)

\* The runtime polls a task whose future or timer is ready, and its clock
\* does not stop: a wait or an answer that stays possible happens.
SpecHealth ==
  /\ Init
  /\ [][NextHealth]_vars
  /\ \A p \in ProbeIds : WF_vars(health_wait(p)) /\ WF_vars(health_answer(p))

Next ==
  \/ create_user
  \/ list_users
  \/ get_user
  \/ update_user
  \/ delete_user
  \/ create_product
  \/ list_products
  \/ get_product
  \/ update_product
  \/ delete_product
  \/ create_order
  \/ list_orders
  \/ get_order
  \/ update_order
  \/ delete_order
  \/ Tick
  \/ Forget

Spec == Init /\ [][Next]_vars

\* ------------------------------------------------------ the smoke scenario
\* users_products_orders_crud_smoke, for the user and the order: the requests
\* of the scenario and no others, each sent when the store is where the
\* scenario has brought it.  A request that the pool failed is sent again; the
\* reads may be sent at any point after the record's create.

\* The id the create answered: the one user and the one order of the scenario.
smoke_user_id == CHOOSE u \in DOMAIN users : TRUE
smoke_order_id == CHOOSE o \in DOMAIN orders \cup deleted.orders : TRUE

\* POST /users
smoke_create_user ==
  /\ users = Empty
  /\ create_user

\* POST /orders {"user_id": user_id, "status": "created", "total_cents": ...}
smoke_create_order ==
  /\ users # Empty /\ orders = Empty /\ deleted.orders = {}
  /\ create_order
  /\ last'.body = [user_id |-> smoke_user_id, status |-> "created", total_cents |-> 1000]

\* GET /orders/{order_id}
smoke_get_order ==
  /\ DOMAIN orders \cup deleted.orders # {}
  /\ get_order
  /\ last'.id = smoke_order_id

\* PUT /orders/{order_id} {"status": "paid"}
smoke_update_order ==
  /\ orders # Empty
  /\ orders[smoke_order_id].status = "created"
  /\ update_order
  /\ last'.id = smoke_order_id
  /\ last'.body = [status |-> Some("paid"), total_cents |-> None]

\* DELETE /orders/{order_id}
smoke_delete_order ==
  /\ orders # Empty
  /\ orders[smoke_order_id].status = "paid"
  /\ delete_order
  /\ last'.id = smoke_order_id

\* GET /users/{user_id}
smoke_get_user ==
  /\ users # Empty
  /\ get_user
  /\ last'.id = smoke_user_id

NextSmoke ==
  \/ smoke_create_user
  \/ smoke_create_order
  \/ smoke_get_order
  \/ smoke_update_order
  \/ smoke_delete_order
  \/ smoke_get_user
  \/ Tick
  \/ Forget

SpecSmoke == Init /\ [][NextSmoke]_vars

\* ------------------------------------------------- the two repositories
\* The calls of the UserRepository trait on both implementers, and the clock.
NextFake ==
  \/ UserRepository_create
  \/ UserRepository_list
  \/ UserRepository_get
  \/ UserRepository_update
  \/ UserRepository_delete
  \/ Tick

SpecFake == Init /\ [][NextFake]_vars

\* ------------------------------------------------- the requests in parallel
\* Writes racing on the tables, the pool serving every task.
NextRace ==
  \/ \E t \in TaskIds :
       \/ task_request(t)
       \/ task_acquire(t)
       \/ task_create(t)
       \/ task_update(t)
       \/ task_delete(t)
  \/ tasks_forget

SpecRace == Init /\ [][NextRace]_vars

\* ------------------------------------------------------- the pool alone
\* Tasks and other requests taking the pool's connections.  A task's await of
\* a connection goes on by itself (the runtime drives its timer); a statement
\* under way has no deadline and may never return.
task_await(t) == task_acquire(t) \/ task_wait(t) \/ task_timeout(t)

NextPool ==
  \/ \E t \in TaskIds :
       \/ task_request(t)
       \/ task_acquire(t)
       \/ task_wait(t)
       \/ task_timeout(t)
       \/ task_delete(t)
  \/ tasks_forget
  \/ other_acquire
  \/ other_release

SpecPool ==
  /\ Init
  /\ [][NextPool]_vars
  /\ \A t \in TaskIds : WF_vars(task_await(t))

\* =================================================================== claims
\* The three tables by resource name.
Store == [users |-> users, products |-> products, orders |-> orders]

\* The business fields of a record: all but id, created_at and updated_at.
BusinessFields(rsrc) ==
  CASE rsrc = "users" -> {"email", "name"}
    [] rsrc = "products" -> {"sku", "name", "price_cents"}
    [] rsrc = "orders" -> {"user_id", "status", "total_cents"}

\* The fields a patch can carry.
PatchFields(rsrc) ==
  CASE rsrc = "users" -> {"email", "name"}
    [] rsrc = "products" -> {"sku", "name", "price_cents"}
    [] rsrc = "orders" -> {"status", "total_cents"}

\* The unique field of a resource, if it has one.
UniqueFields(rsrc) ==
  CASE rsrc = "users" -> {"email"}
    [] rsrc = "products" -> {"sku"}
    [] rsrc = "orders" -> {}

AllAbsent(rsrc, body) == \A f \in PatchFields(rsrc) : body[f] = None

\* The claims on single operations are about requests whose round trip to the
\* store completed: with a fault of the pool every operation answers
\* Unexpected (C10), whatever the store holds.
Completed(l) == l.fault = "none"

\* C1: for every resource and every creation input, a successful create
\* followed directly by get(returned id) returns the record create returned,
\* whose business fields are the input's and whose created_at equals its
\* updated_at.
C1_CreateThenGet ==
  [][ ( /\ last.op = "create" /\ last.res.ok
        /\ last'.op = "get" /\ last'.after = "create" /\ last'.rsrc = last.rsrc
        /\ last'.id = last.res.val.id
        /\ Completed(last') )
      => /\ last'.res = Ok(last.res.val)
         /\ last'.http = [status |-> OK, json |-> last.res.val]
         /\ \A f \in BusinessFields(last.rsrc) : last'.res.val[f] = last.body[f]
         /\ last'.res.val.created_at = last'.res.val.updated_at ]_vars

\* C1's case: an order was created and then read back.
C1_Witness ==
  /\ last.op = "get" /\ last.after = "create" /\ last.rsrc = "orders"
  /\ last.res.ok /\ last.res.val.id = last.id

\* C2: a successful update sets exactly the business fields present in the
\* patch to the given values; every business field absent from the patch keeps
\* its prior value; the returned record is the stored one and no other record
\* changes.
C2_UpdateFrame ==
  [][ (last'.op = "update" /\ last'.res.ok)
      => LET r == last'.rsrc
             id == last'.id
         IN /\ id \in DOMAIN Store[r]
            /\ DOMAIN Store'[r] = DOMAIN Store[r]
            /\ \A f \in BusinessFields(r) :
                 Store'[r][id][f] =
                   IF f \in PatchFields(r) /\ last'.body[f] # None
                     THEN last'.body[f][1]
                     ELSE Store[r][id][f]
            /\ last'.res.val = Store'[r][id]
            /\ \A j \in DOMAIN Store[r] \ {id} : Store'[r][j] = Store[r][j]
            /\ \A q \in Resources \ {r} : Store'[q] = Store[q] ]_vars

\* C2's case: an order's status alone was patched, its total left as it was.
C2_Witness ==
  /\ last.op = "update" /\ last.rsrc = "orders" /\ last.res.ok
  /\ last.body.status = Some("paid") /\ last.body.total_cents = None
  /\ orders[last.id].status = "paid" /\ orders[last.id].total_cents = 2500

\* C3 as claimed: an update of an existing id with every patch field absent
\* succeeds and leaves the business fields unchanged, and every successful
\* update leaves updated_at strictly greater than it was.
C3_StrictlyGreater ==
  [][ ( /\ last'.op = "update" /\ Completed(last')
        /\ last'.id \in DOMAIN Store[last'.rsrc] )
      => LET r == last'.rsrc
             id == last'.id
         IN /\ AllAbsent(r, last'.body)
                 => /\ last'.res.ok
                    /\ \A f \in BusinessFields(r) : Store'[r][id][f] = Store[r][id][f]
            /\ last'.res.ok
                 => /\ Store'[r][id].updated_at > Store[r][id].updated_at
                    /\ last'.res.val.updated_at = Store'[r][id].updated_at ]_vars

\* C3, amended: an update of an existing id with every patch field absent
\* succeeds and leaves the business fields unchanged, and every successful
\* update sets updated_at, returned and stored, to the store's current time
\* as the statement reads it: the value it had plays no part, so it comes out
\* greater only when that reading is past it.
C3_RefreshedToNow ==
  [][ ( /\ last'.op = "update" /\ Completed(last')
        /\ last'.id \in DOMAIN Store[last'.rsrc] )
      => LET r == last'.rsrc
             id == last'.id
         IN /\ AllAbsent(r, last'.body)
                 => /\ last'.res.ok
                    /\ \A f \in BusinessFields(r) : Store'[r][id][f] = Store[r][id][f]
            /\ last'.res.ok
                 => /\ Store'[r][id].updated_at = now
                    /\ last'.res.val.updated_at = now ]_vars

\* C3's case: a patch with every field absent went through after the clock
\* had advanced.
C3_Witness ==
  /\ last.op = "update" /\ last.res.ok /\ AllAbsent(last.rsrc, last.body)
  /\ last.res.val.updated_at > last.res.val.created_at

\* C4: delete of an id that is not in the table answers NotFound and changes
\* nothing; and once a delete of an id has succeeded, every later get, update
\* and delete of that id answers NotFound: the id is never given to a new
\* record.
C4_DeletedStaysNotFound ==
  [][ ( /\ last'.op \in {"get", "update", "delete"} /\ Completed(last')
        /\ \/ last'.op = "delete" /\ last'.id \notin DOMAIN Store[last'.rsrc]
           \/ last'.id \in deleted[last'.rsrc] )
      => /\ last'.res = Err(NotFound)
         /\ last'.http = [status |-> NOT_FOUND, json |-> [error |-> "not found"]]
         /\ Store' = Store
         /\ deleted' = deleted ]_vars

\* C4's case: a record was deleted and a later get of its id answered NotFound.
C4_Witness ==
  /\ last.op = "get" /\ last.id \in deleted[last.rsrc]
  /\ last.res = Err(NotFound)

\* The request's input is within the data model: a price, where the request
\* carries one, is not negative.  (The store checks a row's columns before it
\* looks for a duplicate, so a negative price is what such a request is
\* refused for: C18.)
ValidInput(l) ==
  l.rsrc = "products"
    => \/ l.op = "create" /\ l.body.price_cents >= 0
       \/ l.op = "update" /\ (l.body.price_cents = None \/ l.body.price_cents[1] >= 0)

\* A stored record other than `id` holds value v in the unique field.
Taken(rsrc, id, v) ==
  \E f \in UniqueFields(rsrc) : \E j \in DOMAIN Store[rsrc] \ {id} : Store[rsrc][j][f] = v

\* C5: create with an email (users) or sku (products) that a stored record
\* already holds answers Conflict, and the stored records are the same before
\* and after.
C5_DuplicateCreateConflicts ==
  [][ ( /\ last'.op = "create" /\ Completed(last') /\ ValidInput(last')
        /\ \E f \in UniqueFields(last'.rsrc) : Taken(last'.rsrc, 0, last'.body[f]) )
      => /\ last'.res = Err(Conflict)
         /\ last'.http = [status |-> CONFLICT, json |-> [error |-> "conflict"]]
         /\ Store' = Store ]_vars

\* C5's case: a second product with a stored sku was refused.
C5_Witness ==
  /\ last.op = "create" /\ last.rsrc = "products" /\ last.res = Err(Conflict)
  /\ \E i \in DOMAIN products : products[i].sku = last.body.sku

\* C6: update answers NotFound when no record has the id, and Conflict when
\* the patch would give the record the email or sku of a different stored
\* record; in both cases no record is modified: updated_at of the target is
\* not advanced.
C6_UpdateFailures ==
  [][ (last'.op = "update" /\ Completed(last'))
      => LET r == last'.rsrc
             id == last'.id
         IN /\ id \notin DOMAIN Store[r]
                 => last'.res = Err(NotFound) /\ Store' = Store
            /\ ( /\ id \in DOMAIN Store[r] /\ ValidInput(last')
                 /\ \E f \in UniqueFields(r) :
                      last'.body[f] # None /\ Taken(r, id, last'.body[f][1]) )
                 => last'.res = Err(Conflict) /\ Store' = Store
            /\ ~last'.res.ok => Store' = Store ]_vars

\* C6's case: a user's patch asked for another user's email and was refused.
C6_Witness ==
  /\ last.op = "update" /\ last.rsrc = "users" /\ last.res = Err(Conflict)
  /\ last.id \in DOMAIN users
  /\ \E j \in DOMAIN users \ {last.id} : Some(users[j].email) = last.body.email

\* What list must return whatever came before: every stored record exactly
\* once, created_at descending; an empty table gives the empty sequence.
Listed(rsrc, rows) ==
  /\ Len(rows) = Cardinality(DOMAIN Store[rsrc])
  /\ {rows[i] : i \in 1..Len(rows)} = {Store[rsrc][j] : j \in DOMAIN Store[rsrc]}
  /\ \A i, j \in 1..Len(rows) : i < j => rows[i].created_at >= rows[j].created_at

\* C7: list answers with every stored record exactly once, created_at
\* descending, the empty sequence (not an error) on an empty table; and a list
\* that directly follows a list of the same resource returns the same sequence
\* in the same order, also when records share a created_at.
C7_ListRepeatable ==
  [][ (last'.op = "list" /\ Completed(last'))
      => /\ last'.res.ok
         /\ last'.http = [status |-> 200, json |-> last'.res.val]
         /\ Listed(last'.rsrc, last'.res.val)
         /\ (last.op = "list" /\ last.rsrc = last'.rsrc /\ last.res.ok)
              => last'.res.val = last.res.val ]_vars

\* C7, the part that holds: every list answer is complete and sorted.
C7_ListCompleteSorted ==
  (last.op = "list" /\ Completed(last))
    => /\ last.res.ok
       /\ last.http = [status |-> 200, json |-> last.res.val]
       /\ Listed(last.rsrc, last.res.val)

\* The mapping as the claim states it.
ExpectedMapping(err) ==
  IF err.kind = "RowNotFound" THEN NotFound
  ELSE IF err.kind = "Database" /\ err.code = Some("23505") THEN Conflict
  ELSE Unexpected(sqlx_to_string(err))

\* C8: each adapter's map_sqlx_err maps every native error to one of three
\* outcomes: no rows to NotFound, a database error with code 23505 to Conflict,
\* anything else to Unexpected with the native error's message; and the three
\* copies agree on every input.
C8_ErrorMapping ==
  \A a \in Resources :
    errOut[a] # None
      => /\ errOut[a][1] = ExpectedMapping(errIn)
         /\ errOut[a][1].tag \in {"NotFound", "Conflict", "Unexpected"}
         /\ errOut[a][1].tag = "Unexpected" => errOut[a][1].detail = sqlx_to_string(errIn)
         /\ \A b \in Resources : errOut[b] # None => errOut[b] = errOut[a]

\* C8's case: a foreign-key violation went through all three copies and came
\* out Unexpected.
C8_Witness ==
  /\ errIn.kind = "Database" /\ errIn.code = Some("23503")
  /\ \A a \in Resources : errOut[a] # None /\ errOut[a][1].tag = "Unexpected"

\* C9: whatever handler answers, a RepoError is translated by one table:
\* NotFound to 404 "not found", Conflict to 409 "conflict", Unexpected(detail)
\* to 500 with the detail itself as the message, without the prefix of
\* RepoError's Display; never a 2xx status.
C9_ErrorTable ==
  (last.op # "idle" /\ ~last.res.ok)
    => LET e == last.res.err
       IN /\ e.tag \in {"NotFound", "Conflict", "Unexpected"}
          /\ e.tag = "NotFound"
               => last.http = [status |-> 404, json |-> [error |-> "not found"]]
          /\ e.tag = "Conflict"
               => last.http = [status |-> 409, json |-> [error |-> "conflict"]]
          /\ e.tag = "Unexpected"
               => /\ last.http = [status |-> 500, json |-> [error |-> e.detail]]
                  /\ last.http.json.error # RepoError_to_string(e)
          /\ ~(last.http.status >= 200 /\ last.http.status <= 299)

\* C9's case: the pool gave no connection to a get, answered 500 with the
\* native message.
C9_Witness ==
  /\ last.op = "get" /\ last.fault = "PoolTimedOut"
  /\ last.http = [status |-> 500,
                  json |-> [error |-> "pool timed out while waiting for an open connection"]]

\* C10: create answers Conflict only when the unique field is already held by
\* a stored record; a fault of the pool gives Unexpected; and an order for a
\* user_id that no stored user has gives Unexpected, answered 500, and no
\* order is stored.
C10_CreateFailures ==
  [][ last'.op = "create"
      => /\ (~last'.res.ok /\ last'.res.err.tag = "Conflict")
              => /\ Completed(last')
                 /\ \E f \in UniqueFields(last'.rsrc) : Taken(last'.rsrc, 0, last'.body[f])
         /\ ~Completed(last')
              => ~last'.res.ok /\ last'.res.err.tag = "Unexpected" /\ Store' = Store
         /\ ~last'.res.ok => last'.res.err.tag \in {"Conflict", "Unexpected"}
         /\ ( /\ last'.rsrc = "orders" /\ Completed(last')
              /\ last'.body.user_id \notin DOMAIN users )
              => /\ ~last'.res.ok /\ last'.res.err.tag = "Unexpected"
                 /\ last'.http.status = 500
                 /\ Store' = Store ]_vars

\* C10's case: an order for a user that was never stored was refused with 500.
C10_Witness ==
  /\ last.op = "create" /\ last.rsrc = "orders" /\ Completed(last)
  /\ last.body.user_id \notin DOMAIN users
  /\ ~last.res.ok /\ last.res.err.tag = "Unexpected" /\ last.http.status = 500

\* C11: whatever request is handled, a record that stays stored keeps its id
\* and its created_at (an order also its user_id); a record that appears
\* takes an id no record had before; each stored record carries the id it is
\* stored under, no id is in two tables, and updated_at >= created_at.
C11_IdentityImmutable ==
  [][ /\ \A r \in Resources :
           \A i \in DOMAIN Store[r] \cap DOMAIN Store'[r] :
             /\ Store'[r][i].id = Store[r][i].id
             /\ Store'[r][i].created_at = Store[r][i].created_at
             /\ r = "orders" => Store'[r][i].user_id = Store[r][i].user_id
      /\ \A r \in Resources :
           \A i \in DOMAIN Store'[r] \ DOMAIN Store[r] :
             /\ i = nextId /\ nextId' > nextId
             /\ \A q \in Resources : i \notin DOMAIN Store[q] \cup deleted[q]
      /\ \A r \in Resources :
           \A i \in DOMAIN Store'[r] :
             /\ Store'[r][i].id = i
             /\ Store'[r][i].updated_at >= Store'[r][i].created_at
             /\ \A q \in Resources \ {r} : i \notin DOMAIN Store'[q] ]_vars

\* C11's case: an order's status was patched after the clock had advanced, and
\* another record had been stored before it.
C11_Witness ==
  /\ last.op = "update" /\ last.rsrc = "orders" /\ last.res.ok
  /\ last.body.status # None
  /\ orders[last.id].updated_at > orders[last.id].created_at
  /\ orders[last.id].id = last.id /\ last.id > 1

\* C12: after every request no two stored users have the same email and no
\* two stored products the same sku; and a create, or an update of a stored
\* record, that asks for an email or sku another stored record holds is
\* answered Conflict (409).
C12_UniqueFieldsHold ==
  [][ /\ \A r \in Resources : \A f \in UniqueFields(r) :
           \A i, j \in DOMAIN Store'[r] : i # j => Store'[r][i][f] # Store'[r][j][f]
      /\ ( /\ last'.op \in {"create", "update"} /\ Completed(last') /\ ValidInput(last')
           /\ \E f \in UniqueFields(last'.rsrc) :
                \/ last'.op = "create" /\ Taken(last'.rsrc, 0, last'.body[f])
                \/ /\ last'.op = "update" /\ last'.id \in DOMAIN Store[last'.rsrc]
                   /\ last'.body[f] # None
                   /\ Taken(last'.rsrc, last'.id, last'.body[f][1]) )
           => /\ last'.res = Err(Conflict)
              /\ last'.http = [status |-> 409, json |-> [error |-> "conflict"]] ]_vars

\* C12's case: two products are stored and a patch asking for the other's sku
\* was answered Conflict.
C12_Witness ==
  /\ last.op = "update" /\ last.rsrc = "products" /\ last.res = Err(Conflict)
  /\ Cardinality(DOMAIN products) = 2
  /\ last.id \in DOMAIN products
  /\ \E j \in DOMAIN products \ {last.id} :
       Some(products[j].sku) = last.body.sku /\ products[j].sku # products[last.id].sku

\* What get(id) answers when its statement runs, by resource.
GetOf(rsrc, id) ==
  CASE rsrc = "users" -> UserService_get(id, "none").res
    [] rsrc = "products" -> ProductService_get(id, "none").res
    [] rsrc = "orders" -> OrderService_get(id, "none").res

\* Every sequence list() may answer when its statement runs, by resource.
ListsOf(rsrc) ==
  CASE rsrc = "users" -> {UserService_list(rows, "none").res : rows \in OrderByCreatedAtDesc(users)}
    [] rsrc = "products" ->
         {ProductService_list(rows, "none").res : rows \in OrderByCreatedAtDesc(products)}
    [] rsrc = "orders" ->
         {OrderService_list(rows, "none").res : rows \in OrderByCreatedAtDesc(orders)}

\* A delete removed exactly the record `id` of `rsrc`: it is gone from the
\* table, get answers NotFound, no list shows it, and every other record of
\* every resource is as it was.
RemovedExactly(rsrc, id) ==
  /\ DOMAIN Store'[rsrc] = DOMAIN Store[rsrc] \ {id}
  /\ \A j \in DOMAIN Store'[rsrc] : Store'[rsrc][j] = Store[rsrc][j]
  /\ \A q \in Resources \ {rsrc} : Store'[q] = Store[q]
  /\ GetOf(rsrc, id)' = Err(NotFound)
  /\ \A l \in ListsOf(rsrc)' : l.ok /\ \A k \in 1..Len(l.val) : l.val[k].id # id

\* C13 as claimed: delete of a stored id succeeds (204) and removes exactly
\* that record, leaving every other record of every resource as it was; also
\* when the record is a user that stored orders reference.
C13_DeleteRemovesExactlyOne ==
  [][ \A r \in Resources : \A id \in DOMAIN Store[r] :
        ( /\ last'.op = "delete" /\ Completed(last')
          /\ last'.rsrc = r /\ last'.id = id )
        => /\ last'.res = Ok(<<>>)
           /\ last'.http = [status |-> 204, json |-> <<>>]
           /\ RemovedExactly(r, id) ]_vars

\* C13, amended: delete of a stored id that no stored order references
\* succeeds (204) and removes exactly that record, leaving every other record
\* of every resource as it was; delete of a user that a stored order references
\* is refused by the store: it answers Unexpected (500) and nothing is removed.
C13_DeleteUnlessReferenced ==
  [][ \A r \in Resources : \A id \in DOMAIN Store[r] :
        ( /\ last'.op = "delete" /\ Completed(last')
          /\ last'.rsrc = r /\ last'.id = id )
        => IF r = "users" /\ \E o \in DOMAIN orders : orders[o].user_id = id
             THEN /\ ~last'.res.ok /\ last'.res.err.tag = "Unexpected"
                  /\ last'.http.status = 500
                  /\ Store' = Store
                  /\ deleted' = deleted
             ELSE /\ last'.res = Ok(<<>>)
                  /\ last'.http = [status |-> 204, json |-> <<>>]
                  /\ RemovedExactly(r, id) ]_vars

\* C13's case: a delete of a user that a stored order references was refused
\* and the user is still stored.
C13_Witness ==
  /\ last.op = "delete" /\ last.rsrc = "users" /\ Completed(last)
  /\ last.id \in DOMAIN users
  /\ \E o \in DOMAIN orders : orders[o].user_id = last.id
  /\ ~last.res.ok /\ last.http.status = 500

\* C14: in the scenario (create user U; create order O for U with status
\* "created" and total 1000; update O with only status "paid"; delete O):
\* once the update has succeeded get(O) returns status "paid", total 1000 and
\* user_id U, and every get(O) answered while O is stored shows total 1000 and
\* user_id U; once the delete has succeeded get(O) answers NotFound while
\* get(U) still succeeds.
C14_SmokeScenario ==
  [][ /\ \A o \in DOMAIN orders : \A u \in DOMAIN users :
           (last'.op = "update" /\ last'.id = o /\ last'.res.ok)
             => /\ GetOf("orders", o)'.ok
                /\ GetOf("orders", o)'.val.status = "paid"
                /\ GetOf("orders", o)'.val.total_cents = 1000
                /\ GetOf("orders", o)'.val.user_id = u
                /\ GetOf("orders", o)'.val.id = o
      /\ \A o \in DOMAIN orders : \A u \in DOMAIN users :
           (last'.op = "delete" /\ last'.id = o /\ last'.res.ok)
             => /\ orders[o].status = "paid"
                /\ GetOf("orders", o)' = Err(NotFound)
                /\ GetOf("users", u)' = Ok(users[u])
      /\ (last'.op = "get" /\ last'.rsrc = "orders" /\ Completed(last'))
           => IF last'.id \in deleted.orders
                THEN /\ last'.res = Err(NotFound)
                     /\ last'.http = [status |-> 404, json |-> [error |-> "not found"]]
                ELSE /\ last'.res.ok /\ last'.http.status = 200
                     /\ last'.res.val.total_cents = 1000
                     /\ last'.res.val.user_id \in DOMAIN users
                     /\ last'.res.val.status = orders[last'.id].status
      /\ (last'.op = "get" /\ last'.rsrc = "users" /\ Completed(last'))
           => last'.res.ok /\ last'.http.status = 200 ]_vars

\* C14's case: the scenario has run to its end: the order was created, paid
\* and deleted, and a get of it answered NotFound while the user is stored.
C14_Witness ==
  /\ last.op = "get" /\ last.rsrc = "orders" /\ last.res = Err(NotFound)
  /\ last.id \in deleted.orders
  /\ users # Empty
  /\ GetOf("users", smoke_user_id).ok

\* C15: a request whose service call returned Ok is answered 201 with the
\* created record (create), 200 with the record or records (list, get,
\* update), 204 with no body (delete); and an answer with a 2xx status is given
\* only when the service call returned Ok.
C15_SuccessStatuses ==
  last.op # "idle"
    => /\ last.res.ok
            => last.http =
                 CASE last.op = "create" -> [status |-> 201, json |-> last.res.val]
                   [] last.op \in {"list", "get", "update"} ->
                        [status |-> 200, json |-> last.res.val]
                   [] last.op = "delete" -> [status |-> 204, json |-> <<>>]
       /\ last.http.status \in 200..299 => last.res.ok

\* C15's case: a product was deleted and the answer was 204 with no body.
C15_Witness ==
  /\ last.op = "delete" /\ last.rsrc = "products" /\ last.res.ok
  /\ last.http = [status |-> 204, json |-> <<>>]
  /\ last.id \in deleted.products

\* What C16 says of one probe at one moment: a probe still waiting has waited
\* no longer than the timeout; an answer is 200 with status "ok", given no
\* later than the timeout, with db "ok" exactly when the round trip came back
\* with its row, and db "error" otherwise.
ProbeWithinBound(p) ==
  /\ probes[p].pc = "waiting" => probes[p].elapsed <= HealthTimeout
  /\ probes[p].pc = "done"
       => /\ probes[p].elapsed <= HealthTimeout
          /\ probes[p].http # None
          /\ probes[p].http[1].status = 200
          /\ probes[p].http[1].json.status = "ok"
          /\ probes[p].http[1].json.db = IF probes[p].fut = "ok" THEN "ok" ELSE "error"

\* C16: the health probe never fails the call: it always answers 200 with
\* status "ok", db "ok" only if the round trip completed successfully within
\* the 2 second timeout and db "error" otherwise; and every probe is answered,
\* within the timeout, also when the round trip never completes.
C16_HealthAlwaysAnswers ==
  /\ [](\A p \in ProbeIds : ProbeWithinBound(p))
  /\ \A p \in ProbeIds : (probes[p].pc = "waiting") ~> (probes[p].pc = "done")

\* C16's case: the round trip never came back, the timer ran out and the
\* probe was answered 200 with db "error".
C16_Witness ==
  \E p \in ProbeIds :
    /\ probes[p].pc = "done" /\ probes[p].fut = "pending"
    /\ probes[p].elapsed = HealthTimeout
    /\ probes[p].http = Some([status |-> 200, json |-> [status |-> "ok", db |-> "error"]])

\* The same-named repository operation on the same arguments: its result and
\* the table it leaves.  `rows` is the order the store returns for list.
RepositoryCall(rsrc, op, id, body, rows, fault) ==
  CASE rsrc = "users" ->
         ( CASE op = "create" -> PgUserRepository_create(body, fault)
             [] op = "list" -> PgUserRepository_list(rows, fault)
             [] op = "get" -> PgUserRepository_get(id, fault)
             [] op = "update" -> PgUserRepository_update(id, body, fault)
             [] op = "delete" -> PgUserRepository_delete(id, fault) )
    [] rsrc = "products" ->
         ( CASE op = "create" -> PgProductRepository_create(body, fault)
             [] op = "list" -> PgProductRepository_list(rows, fault)
             [] op = "get" -> PgProductRepository_get(id, fault)
             [] op = "update" -> PgProductRepository_update(id, body, fault)
             [] op = "delete" -> PgProductRepository_delete(id, fault) )
    [] rsrc = "orders" ->
         ( CASE op = "create" -> PgOrderRepository_create(body, fault)
             [] op = "list" -> PgOrderRepository_list(rows, fault)
             [] op = "get" -> PgOrderRepository_get(id, fault)
             [] op = "update" -> PgOrderRepository_update(id, body, fault)
             [] op = "delete" -> PgOrderRepository_delete(id, fault) )

\* C17: what a service call returns, and the table it leaves, are what one
\* call of the same-named repository operation with the same arguments
\* returns and leaves; with a fault of the pool that is Unexpected with the
\* native message, at once, and nothing is stored or changed.
C17_ServicesDelegate ==
  [][ last'.op \in {"create", "list", "get", "update", "delete"}
      => /\ \E rows \in OrderByCreatedAtDesc(Store[last'.rsrc]) :
              LET r == RepositoryCall(last'.rsrc, last'.op, last'.id, last'.body,
                                      rows, last'.fault)
              IN /\ last'.res = r.res
                 /\ Store'[last'.rsrc] = r.tbl
         /\ \A q \in Resources \ {last'.rsrc} : Store'[q] = Store[q]
         /\ ~Completed(last')
              => /\ last'.res = Err(Unexpected(sqlx_to_string(PoolTimedOut)))
                 /\ Store' = Store ]_vars

\* C17's case: the pool gave no connection to an order's create; the answer
\* was Unexpected and no order was stored.
C17_Witness ==
  /\ last.op = "create" /\ last.rsrc = "orders" /\ last.fault = "PoolTimedOut"
  /\ last.body.user_id \in DOMAIN users
  /\ last.res = Err(Unexpected("pool timed out while waiting for an open connection"))
  /\ orders = Empty

\* C18: after every request every stored product has price_cents >= 0; a
\* create, or an update of a stored product, that carries a negative price is
\* refused (Unexpected, 500) and stores nothing.
C18_PriceNonNegative ==
  [][ /\ \A i \in DOMAIN products' : products'[i].price_cents >= 0
      /\ ( /\ last'.rsrc = "products" /\ Completed(last')
           /\ \/ last'.op = "create" /\ last'.body.price_cents < 0
              \/ /\ last'.op = "update" /\ last'.id \in DOMAIN products
                 /\ last'.body.price_cents # None /\ last'.body.price_cents[1] < 0 )
           => /\ ~last'.res.ok /\ last'.res.err.tag = "Unexpected"
              /\ last'.http.status = 500
              /\ Store' = Store ]_vars

\* C18's case: a patch with a negative price for a stored product was refused
\* and the product kept its price.
C18_Witness ==
  /\ last.op = "update" /\ last.rsrc = "products" /\ Completed(last)
  /\ last.id \in DOMAIN products
  /\ last.body.price_cents = Some(-1)
  /\ ~last.res.ok /\ last.http.status = 500
  /\ products[last.id].price_cents >= 0

\* C19: after every request every stored order's user_id is the id of a
\* stored user; creating an order for a user that is not stored fails and
\* stores no order.
C19_ReferentialIntegrity ==
  [][ /\ \A o \in DOMAIN orders' : orders'[o].user_id \in DOMAIN users'
      /\ ( /\ last'.op = "create" /\ last'.rsrc = "orders" /\ Completed(last')
           /\ last'.body.user_id \notin DOMAIN users )
           => ~last'.res.ok /\ orders' = orders ]_vars

\* C19's case: an order was asked for a user that had been stored and then
\* deleted; it was refused and no order names that user.
C19_Witness ==
  /\ last.op = "create" /\ last.rsrc = "orders" /\ Completed(last)
  /\ last.body.user_id \in deleted.users
  /\ ~last.res.ok
  /\ \A o \in DOMAIN orders : orders[o].user_id # last.body.user_id


\* The kind of an outcome: Ok, or the error's kind.
Kind(r) == IF r.ok THEN "Ok" ELSE r.err.tag

\* A user up to its timestamps.
Record(u) == [id |-> u.id, email |-> u.email, name |-> u.name]

\* C20: on every call made on both repositories FakeUserRepo answers as
\* PgUserRepository does: the same kind of outcome (Ok, NotFound, Conflict),
\* the same record up to timestamps, and for list the same users, ordered by
\* created_at descending.
C20_FakeMatchesPg ==
  /\ Kind(contract.fake) = Kind(contract.pg)
  /\ contract.op \in {"create", "get", "update"} /\ contract.pg.ok /\ contract.fake.ok
       => Record(contract.fake.val) = Record(contract.pg.val)
  /\ contract.op = "list" /\ contract.pg.ok /\ contract.fake.ok
       => /\ {Record(contract.fake.val[i]) : i \in DOMAIN contract.fake.val}
             = {Record(contract.pg.val[i]) : i \in DOMAIN contract.pg.val}
          /\ \A i, j \in DOMAIN contract.fake.val :
               i < j => contract.fake.val[i].created_at >= contract.fake.val[j].created_at


\* C21: a request is never held up by the requests that are suspended.
\* Whatever connections the other requests hold, and for however long, a new
\* request can always enter its handler, a task awaiting a connection always
\* has a step to take, it never waits past acquire_timeout, and its await
\* always ends: with a connection, or at the deadline with Unexpected (500)
\* and no statement run.
C21_PoolNeverBlocks ==
  /\ [](\A t \in TaskIds :
          /\ tasks[t].pc = "idle" => ENABLED task_request(t)
          /\ tasks[t].pc = "acquire" => ENABLED task_await(t)
          /\ tasks[t].waited <= acquire_timeout
          /\ tasks[t].pc = "done" /\ tasks[t].fault = "PoolTimedOut"
               => /\ tasks[t].waited = acquire_timeout
                  /\ ~tasks[t].res.ok /\ tasks[t].res.err.tag = "Unexpected"
                  /\ tasks[t].http.status = INTERNAL_SERVER_ERROR)
  /\ \A t \in TaskIds : (tasks[t].pc = "acquire") ~> (tasks[t].pc \in {"query", "done"})

\* C21's case: every connection is out, one of them with a task whose
\* statement is under way, and the other task has been answered Unexpected
\* after waiting out the deadline.
C21_Witness ==
  \E t, q \in TaskIds :
    /\ tasks[q].pc = "query" /\ held = max_connections - 1
    /\ tasks[t].pc = "done" /\ tasks[t].fault = "PoolTimedOut"
    /\ tasks[t].waited = acquire_timeout
    /\ tasks[t].http.status = INTERNAL_SERVER_ERROR


\* The fields a patch provides.
Provided(body) == {f \in DOMAIN body : body[f] # None}

\* Tasks t and q are the two calls of a race: both answered, by the store,
\* and no other task has been at work since the answers were last read.
Raced(t, q) ==
  /\ t # q
  /\ tasks[t].pc = "done" /\ tasks[q].pc = "done"
  /\ tasks[t].fault = "none" /\ tasks[q].fault = "none"
  /\ \A o \in TaskIds \ {t, q} : tasks[o].pc = "idle"

\* The patch of task t is one the store accepts on its own: within the data
\* model and taking no unique value that another record holds.
Acceptable(t) ==
  /\ ValidInput(tasks[t])
  /\ \A f \in Provided(tasks[t].body) \cap UniqueFields(tasks[t].rsrc) :
       ~Taken(tasks[t].rsrc, tasks[t].id, tasks[t].body[f][1])

\* Tasks t and q updated the same record, which was stored when they arrived.
UpdatedSame(t, q) ==
  /\ Raced(t, q)
  /\ tasks[t].op = "update" /\ tasks[q].op = "update"
  /\ tasks[t].rsrc = tasks[q].rsrc /\ tasks[t].id = tasks[q].id
  /\ tasks[t].id \in DOMAIN before[tasks[t].rsrc]
  /\ Acceptable(t) /\ Acceptable(q)

\* C22: no lost update.  When two updates of the same stored record have run
\* in parallel, in whatever order their statements ran, both succeeded and
\* every field that only one of them patched carries that patch's value; a
\* field both patched carries one of the two values.
C22_NoLostUpdate ==
  \A t, q \in TaskIds :
    UpdatedSame(t, q) =>
      LET rsrc == tasks[t].rsrc
          row == Store[rsrc][tasks[t].id]
      IN /\ tasks[t].res.ok /\ tasks[q].res.ok
         /\ tasks[t].id \in DOMAIN Store[rsrc]
         /\ \A f \in Provided(tasks[t].body) \ Provided(tasks[q].body) :
              row[f] = tasks[t].body[f][1]
         /\ \A f \in Provided(tasks[t].body) \cap Provided(tasks[q].body) :
              row[f] \in {tasks[t].body[f][1], tasks[q].body[f][1]}

\* C22's case: one task patched the email and the other the name of the same
\* user while both were in flight, and the user has both.
C22_Witness ==
  \E t, q \in TaskIds :
    /\ UpdatedSame(t, q) /\ tasks[t].rsrc = "users"
    /\ q \in tasks[t].with
    /\ Provided(tasks[t].body) = {"email"} /\ Provided(tasks[q].body) = {"name"}
    /\ users[tasks[t].id].email = tasks[t].body.email[1]
    /\ users[tasks[t].id].email # before.users[tasks[t].id].email
    /\ users[tasks[t].id].name = tasks[q].body.name[1]
    /\ users[tasks[t].id].name # before.users[tasks[t].id].name


\* Tasks t and q created records of one resource with the same value of its
\* unique field f, a value no record held when they arrived.
CreatedSame(t, q, f) ==
  /\ Raced(t, q)
  /\ tasks[t].op = "create" /\ tasks[q].op = "create"
  /\ tasks[t].rsrc = tasks[q].rsrc
  /\ f \in UniqueFields(tasks[t].rsrc)
  /\ tasks[t].body[f] = tasks[q].body[f]
  /\ \A i \in DOMAIN before[tasks[t].rsrc] : before[tasks[t].rsrc][i][f] # tasks[t].body[f]
  /\ ValidInput(tasks[t]) /\ ValidInput(tasks[q])

\* C23: when two creates with the same email (users) or the same sku
\* (products) have run in parallel, in whatever order their statements ran,
\* one answered Ok, the other Conflict (409), and exactly one record with that
\* value is stored.
C23_OneCreateWins ==
  \A t, q \in TaskIds : \A f \in {"email", "sku"} :
    CreatedSame(t, q, f) =>
      /\ tasks[t].res.ok # tasks[q].res.ok
      /\ \A o \in {t, q} :
           ~tasks[o].res.ok => /\ tasks[o].res.err.tag = "Conflict"
                               /\ tasks[o].http.status = CONFLICT
      /\ Cardinality({i \in DOMAIN Store[tasks[t].rsrc] :
                        Store[tasks[t].rsrc][i][f] = tasks[t].body[f]}) = 1

\* C23's case: two creates of a user with one email were in flight together;
\* the first to run was answered Ok and the other Conflict.
C23_Witness ==
  \E t, q \in TaskIds :
    /\ CreatedSame(t, q, "email")
    /\ q \in tasks[t].with
    /\ tasks[t].res.ok /\ tasks[t].http.status = CREATED
    /\ ~tasks[q].res.ok /\ tasks[q].http.status = CONFLICT
    /\ Cardinality(DOMAIN users) = Cardinality(DOMAIN before.users) + 1


\* Tasks t and q worked on the same record, which was stored when they
\* arrived.
SameStored(t, q) ==
  /\ Raced(t, q)
  /\ tasks[t].rsrc = tasks[q].rsrc /\ tasks[t].id = tasks[q].id
  /\ tasks[t].id \in DOMAIN before[tasks[t].rsrc]

\* The record of task t is one the store lets go: no order names it.
Releasable(t) ==
  tasks[t].rsrc = "users"
    => \A o \in DOMAIN before.orders : before.orders[o].user_id # tasks[t].id

\* What a delete by t racing q has come to: the record is gone; of two
\* deletes one answered Ok (204) and the other NotFound (404); an update
\* answered the record with its patch, or NotFound.
DeleteRaceOutcome(t, q) ==
  /\ tasks[q].op \in {"delete", "update"}
       => tasks[t].id \notin DOMAIN Store[tasks[t].rsrc]
  /\ tasks[q].op = "delete"
       => /\ tasks[t].res.ok # tasks[q].res.ok
          /\ \A o \in {t, q} :
               IF tasks[o].res.ok THEN tasks[o].http.status = NO_CONTENT
               ELSE /\ tasks[o].res.err.tag = "NotFound"
                    /\ tasks[o].http.status = NOT_FOUND
  /\ tasks[q].op = "update" /\ Acceptable(q)
       => /\ tasks[t].res.ok
          /\ IF tasks[q].res.ok
               THEN /\ tasks[q].res.val.id = tasks[q].id
                    /\ \A f \in Provided(tasks[q].body) :
                         tasks[q].res.val[f] = tasks[q].body[f][1]
                    /\ tasks[q].http.status = OK
               ELSE /\ tasks[q].res.err.tag = "NotFound"
                    /\ tasks[q].http.status = NOT_FOUND

====
